---------------------------- MODULE Spec2Model ----------------------------
(***************************************************************************)
(* Moneta: the SQLite-backed memory store (internal/store/sqlite) and the  *)
(* vector helpers it uses, as a state machine.                             *)
(*                                                                         *)
(* The committed table `memories` is the sequence `rows` (rowid order).    *)
(* Every caller is a process that runs one store operation at a time:      *)
(* call -> take the readers-writer lock -> run the statements -> return    *)
(* (the deferred unlock).  AddBatch runs inside a transaction whose        *)
(* uncommitted inserts live in tx[p].pending until the commit.             *)
(*                                                                         *)
(* float32 values are modelled by the integers of magnitude below 2^24     *)
(* (every one of them is a float32), their memory image by the four bytes  *)
(* of the IEEE-754 encoding, and a similarity by a fixed-point number in   *)
(* thousandths.                                                            *)
(***************************************************************************)
EXTENDS Integers, Sequences, FiniteSets, TLC

VARIABLES
    rows,     \* the committed rows of table memories, in rowid order
    writer,   \* s.mu: the process holding the write lock, 0 when none
    readers,  \* s.mu: the processes holding the read lock
    pc,       \* per process: where it is in the operation it runs
    op,       \* per process: the operation it runs
    tx,       \* per process: AddBatch's transaction
    ret,      \* per process: what the operation's statements saw and returned
    now,      \* the wall clock
    hist,     \* history: what successful calls have established, per id
    capacity, \* LRU.capacity
    items,    \* LRU.items: the keys of the map
    order,    \* LRU.order: the entries, most recently used first
    hits,     \* LRU.hits
    misses,   \* LRU.misses
    cmu,      \* LRU.mu: the process holding it, 0 when none
    cpc,      \* per process: where it is in the cache or embedder call it runs
    frame,    \* per process: the arguments and results of that call
    requests, \* OllamaClient.requests
    chist,    \* history of the cache: calls returned, uses, vectors put
    svc,      \* the service call in progress
    ebatch,   \* the EmbedBatch call in progress
    chk,      \* the chunker call in progress
    topk,     \* the topKResults call in progress
    kern,     \* the BatchCosineSimilarity call in progress
    web,      \* the HTTP request in progress
    srv       \* moneta serve: the server, its handlers, the signal goroutine

storeVars == <<rows, writer, readers, pc, op, tx, ret, now, hist>>

cacheVars == <<capacity, items, order, hits, misses, cmu, cpc, frame, requests, chist>>

extVars == <<topk, kern, web, srv>>

notStore == <<cacheVars, svc, ebatch, chk, extVars>>

notCache == <<storeVars, svc, ebatch, chk, extVars>>

notService == <<cacheVars, ebatch, chk, extVars>>

notBatch == <<storeVars, svc, chk, extVars>>

coreVars == <<storeVars, cacheVars, svc, ebatch, chk>>

vars == <<coreVars, extVars>>

-----------------------------------------------------------------------------
(* Bounds of the model. *)

NumHandlers == 2  \* requests the HTTP server handles at the same time

NumIds == 2       \* memory ids are 1..NumIds in Spec and SpecConc
SearchIds == 3    \* memory ids are 1..SearchIds in SpecSearch
NumProcs == 2     \* concurrent callers in SpecConc
MaxBatch == 2     \* longest AddBatch argument in Spec and SpecConc
BigN == 12        \* rows of the one batch of SpecBig
MaxNow == 3       \* the clock runs from 1 to MaxNow in SpecClock
MaxCap == 2       \* largest capacity of the LRU in SpecCache
MaxGets == 3      \* Get calls on the cache in one behaviour
MaxLines == 3     \* lines of a file indexed in SpecService
MaxCalls == 2     \* calls of the service in one behaviour
MaxFiles == 2     \* entries of a directory indexed in SpecIndex

(* Program constants. *)
DefaultLimit == 10        \* Search: limit <= 0 means 10
DefaultListLimit == 100   \* List: limit <= 0 means 100
InsertionSortMax == 16    \* sortBySimilarity: insertion sort up to 16 results
Unit == 1000              \* a similarity of 1.0 in the fixed-point model
ChunkMaxSize == 1500          \* NewCodeChunker(1500, 100): opts.MaxSize

ChunkOverlap == 100           \* NewCodeChunker(1500, 100): opts.Overlap

DefaultEmbedBatchSize == 50   \* NewService: cfg.EmbedBatchSize when not positive

MaxScanTokenSize == 65536     \* bufio.Scanner: the longest line it yields is shorter

DefaultCacheSize == 1000       \* NewOllamaClient: CacheSize when the config leaves it 0

Dimensions == 2           \* Config.Dimensions given to New: s.dims

-----------------------------------------------------------------------------
(* Sequences. *)

Range(s) == {s[i] : i \in 1..Len(s)}

RECURSIVE SeqFilter(_, _)
(* The elements of s whose index is in keep, in order. *)
SeqFilter(s, keep) ==
    IF Len(s) = 0 THEN <<>>
    ELSE LET front == SeqFilter(SubSeq(s, 1, Len(s) - 1), keep)
         IN  IF Len(s) \in keep THEN Append(front, s[Len(s)]) ELSE front

RECURSIVE SeqsUpTo(_, _)
(* The sequences of at most n elements of S. *)
SeqsUpTo(S, n) ==
    IF n = 0 THEN {<<>>}
    ELSE LET shorter == SeqsUpTo(S, n - 1)
         IN  shorter \cup {Append(s, e) : s \in shorter, e \in S}

Reverse(s) == [i \in 1..Len(s) |-> s[Len(s) + 1 - i]]

RECURSIVE Pow2(_)
Pow2(n) == IF n = 0 THEN 1 ELSE 2 * Pow2(n - 1)

RECURSIVE Log2(_)
Log2(a) == IF a < 2 THEN 0 ELSE 1 + Log2(a \div 2)

Abs(x) == IF x < 0 THEN -x ELSE x

Min(a, b) == IF a < b THEN a ELSE b

-----------------------------------------------------------------------------
(* encoding.go: float32 <-> bytes. *)

(* The host's byte order: float32ToBytes and bytesToFloat32 reinterpret    *)
(* memory, so the bytes are those of the host (amd64, arm64: little).      *)
HostLittleEndian == TRUE

(* The IEEE-754 single-precision encoding of the integer v, most           *)
(* significant byte first: sign, 8 bits of exponent, 23 of mantissa.       *)
F32BitsBE(v) ==
    IF v = 0 THEN <<0, 0, 0, 0>>
    ELSE LET s == IF v < 0 THEN 1 ELSE 0
             a == Abs(v)
             e == Log2(a)
             ex == 127 + e
             mant == (a - Pow2(e)) * Pow2(23 - e)
         IN  << s * 128 + ex \div 2,
                (ex % 2) * 128 + mant \div 65536,
                (mant \div 256) % 256,
                mant % 256 >>

(* The value of four bytes read as a float32, most significant first.      *)
(* Subnormals and fractions are outside the model's floats and read as 0.  *)
F32ValueBE(b) ==
    LET s == b[1] \div 128
        ex == (b[1] % 128) * 2 + b[2] \div 128
        mant == (b[2] % 128) * 65536 + b[3] * 256 + b[4]
        e == ex - 127
        mag == IF ex = 0 \/ e < 0 \/ e > 23 THEN 0
               ELSE (Pow2(23) + mant) \div Pow2(23 - e)
    IN  IF s = 1 THEN -mag ELSE mag

F32Image(v) == IF HostLittleEndian THEN Reverse(F32BitsBE(v)) ELSE F32BitsBE(v)

F32FromImage(b) == F32ValueBE(IF HostLittleEndian THEN Reverse(b) ELSE b)

RECURSIVE float32ToBytes(_)
float32ToBytes(f) ==
    IF Len(f) = 0 THEN <<>>
    ELSE float32ToBytes(SubSeq(f, 1, Len(f) - 1)) \o F32Image(f[Len(f)])

bytesToFloat32(b) ==
    IF Len(b) = 0 THEN <<>>
    ELSE IF Len(b) % 4 # 0 THEN <<>>
    ELSE [i \in 1..(Len(b) \div 4) |-> F32FromImage(SubSeq(b, 4 * i - 3, 4 * i))]

-----------------------------------------------------------------------------
(* encoding.go: cosine similarity. *)

RECURSIVE SqrtSearch(_, _, _)
(* The integer square root of n, between lo and hi. *)
SqrtSearch(n, lo, hi) ==
    IF lo >= hi THEN lo
    ELSE LET mid == (lo + hi + 1) \div 2
         IN  IF mid * mid <= n THEN SqrtSearch(n, mid, hi)
             ELSE SqrtSearch(n, lo, mid - 1)

(* sqrt32(x), in thousandths: 0 for x <= 0. *)
sqrt32(x) == IF x <= 0 THEN 0 ELSE SqrtSearch(x * Unit * Unit, 0, x * Unit)

RECURSIVE DotLoop(_, _, _)
(* The sum of a[i] * b[i] for i in 1..n: the accumulation loops. *)
DotLoop(a, b, n) == IF n = 0 THEN 0 ELSE DotLoop(a, b, n - 1) + a[n] * b[n]

cosineSimilarity(a, b) ==
    IF Len(a) # Len(b) \/ Len(a) = 0 THEN 0
    ELSE LET dotProduct == DotLoop(a, b, Len(a))
             normA == DotLoop(a, a, Len(a))
             normB == DotLoop(b, b, Len(b))
         IN  IF normA = 0 \/ normB = 0 THEN 0
             ELSE LET den == (sqrt32(normA) * sqrt32(normB)) \div Unit
                      q == (Abs(dotProduct) * Unit * Unit) \div den
                  IN  IF dotProduct < 0 THEN -q ELSE q

-----------------------------------------------------------------------------
(* encoding.go: sortBySimilarity. *)

(* The loop condition of insertionSortResults: results[j] is smaller than  *)
(* key.                                                                    *)
(* The comparison the other way round: an ascending sort. *)
ShiftDownGreater(x, key) == x.Similarity > key.Similarity

ShiftDownLess(x, key) == x.Similarity < key.Similarity

RECURSIVE ShiftDown(_, _, _)
(* The inner loop of insertionSortResults: with key taken out of slot      *)
(* j + 1, move the elements smaller than key one slot up, then put key.    *)
ShiftDown(r, j, key) ==
    IF j >= 1 /\ ShiftDownLess(r[j], key)
    THEN ShiftDown([r EXCEPT ![j + 1] = r[j]], j - 1, key)
    ELSE [r EXCEPT ![j + 1] = key]

RECURSIVE InsertFrom(_, _)
InsertFrom(r, i) ==
    IF i > Len(r) THEN r ELSE InsertFrom(ShiftDown(r, i - 1, r[i]), i + 1)

insertionSortResults(results) == InsertFrom(results, 2)

RECURSIVE SortSlice(_)
(* sort.Slice with less = (Similarity greater): some ordering of results   *)
(* that is descending by similarity (the library sort is not stable).      *)
SortSlice(results) ==
    IF Len(results) = 0 THEN <<>>
    ELSE LET i == CHOOSE k \in 1..Len(results) :
                    \A l \in 1..Len(results) :
                        results[l].Similarity <= results[k].Similarity
         IN  <<results[i]>> \o
             SortSlice(SeqFilter(results, (1..Len(results)) \ {i}))

sortBySimilarity(results) ==
    IF Len(results) <= 1 THEN results
    ELSE IF Len(results) <= InsertionSortMax THEN insertionSortResults(results)
    ELSE SortSlice(results)

-----------------------------------------------------------------------------
(* Strings.  A file path and a metadata string are sequences of one-       *)
(* character strings; "xFF" stands for a byte that is not valid UTF-8 and  *)
(* "uFFFD" for the Unicode replacement character.                          *)

HasPrefix(s, pre) == Len(pre) <= Len(s) /\ SubSeq(s, 1, Len(pre)) = pre

(* SQLite folds the case of ASCII letters when LIKE compares them. *)
FoldCase(c) == IF c = "S" THEN "s" ELSE IF c = "R" THEN "r" ELSE c

RECURSIVE Like(_, _)
(* SQLite's `s LIKE pat` (no ESCAPE): % matches any run of characters, _   *)
(* any one character, a letter matches itself in either case.              *)
Like(s, pat) ==
    IF Len(pat) = 0 THEN Len(s) = 0
    ELSE IF Head(pat) = "%"
         THEN \E k \in 0..Len(s) : Like(SubSeq(s, k + 1, Len(s)), Tail(pat))
    ELSE IF Len(s) = 0 THEN FALSE
    ELSE IF Head(pat) = "_" THEN Like(Tail(s), Tail(pat))
    ELSE FoldCase(Head(pat)) = FoldCase(Head(s)) /\ Like(Tail(s), Tail(pat))

(* encoding/json: a string is written coerced to valid UTF-8, every        *)
(* invalid byte replaced by U+FFFD.                                        *)
ToValidUTF8(s) == [i \in 1..Len(s) |-> IF s[i] = "xFF" THEN "uFFFD" ELSE s[i]]

(* A map[string]string: null (the nil map) or a set of <<key, value>>. *)
NilMap == [null |-> TRUE, kv |-> {}]

MapOf(kv) == [null |-> FALSE, kv |-> kv]

(* json.Marshal(memory.Metadata): "null" for the nil map, else the object  *)
(* with every key and value coerced to valid UTF-8.                        *)
jsonMarshal(md) ==
    IF md.null THEN [null |-> TRUE, kv |-> {}]
    ELSE [null |-> FALSE,
          kv |-> {<<ToValidUTF8(e[1]), ToValidUTF8(e[2])>> : e \in md.kv}]

(* json.Unmarshal(text, &m.Metadata) into the nil map: null leaves it nil, *)
(* an object fills it.                                                     *)
jsonUnmarshal(j) == IF j.null THEN NilMap ELSE MapOf(j.kv)

-----------------------------------------------------------------------------
(* types.Memory and the rows of table memories. *)

Max(a, b) == IF a > b THEN a ELSE b

Ids == 1..Max(NumIds, Max(SearchIds, BigN))

Embeddings == << <<1, 0>>, <<1, 1>>, <<0, 1>>, <<-1, 0>>, <<>>, <<2, 1, 0>> >>

Paths == << <<"s", "r">>, <<"S", "r", "c">>, <<>> >>

Metas == << NilMap, MapOf({<< <<"k">>, <<"v">> >>}),
            MapOf({<< <<"k">>, <<"a", "xFF">> >>}) >>

(* The memories callers submit: two variants for every id. A created_at of *)
(* 0 is the zero time.                                                     *)
MemOf(i, v) ==
    [ id |-> i,
      content |-> IF v = 1 THEN "alpha" ELSE "beta",
      project |-> IF (i + v) % 2 = 0 THEN "A" ELSE "B",
      type |-> IF v = 1 THEN "pattern" ELSE "context",
      file_path |-> Paths[((i + v) % 3) + 1],
      language |-> IF v = 1 THEN "go" ELSE "",
      metadata |-> Metas[((i + 2 * v) % 3) + 1],
      embedding |-> Embeddings[((2 * (i - 1) + (v - 1)) % 6) + 1],
      created_at |-> IF v = 1 THEN 0 ELSE 2 ]

MemsOf(ids) == {MemOf(i, v) : i \in ids, v \in 1..2}

RowIds(tbl) == {tbl[i].id : i \in 1..Len(tbl)}

(* The values bound to the INSERT: the metadata as JSON, the embedding as  *)
(* bytes, created_at set to ts when it is the zero time, updated_at = ts.  *)
(* batch is history: the process whose running AddBatch wrote the row.     *)
NewRow(m, ts, tag) ==
    [ id |-> m.id,
      content |-> m.content,
      project |-> m.project,
      type |-> m.type,
      file_path |-> m.file_path,
      language |-> m.language,
      metadata |-> jsonMarshal(m.metadata),
      embedding |-> float32ToBytes(m.embedding),
      created_at |-> IF m.created_at = 0 THEN ts ELSE m.created_at,
      updated_at |-> ts,
      batch |-> tag ]

(* scanMemory / scanMemoryFromRows: a row as the types.Memory returned. *)
scanMemory(row) ==
    [ id |-> row.id,
      content |-> row.content,
      project |-> row.project,
      type |-> row.type,
      file_path |-> row.file_path,
      language |-> row.language,
      metadata |-> jsonUnmarshal(row.metadata),
      embedding |-> bytesToFloat32(row.embedding),
      created_at |-> row.created_at,
      updated_at |-> row.updated_at ]

-----------------------------------------------------------------------------
(* The SQL statements, on a table given as its sequence of rows. *)

(* An INSERT that reports success and stores nothing. *)
SqlInsertLost(tbl, row) == [ok |-> TRUE, tbl |-> tbl]

(* An INSERT into a table whose id is no key: every row is appended. *)
SqlInsertNoKey(tbl, row) == [ok |-> TRUE, tbl |-> Append(tbl, row)]

(* INSERT INTO memories: id is the PRIMARY KEY, so a row whose id is       *)
(* already in the table is refused and the table is unchanged.             *)
SqlInsert(tbl, row) ==
    IF row.id \in RowIds(tbl) THEN [ok |-> FALSE, tbl |-> tbl]
    ELSE [ok |-> TRUE, tbl |-> Append(tbl, row)]

(* An UPDATE that inserts the row when no row has the id (an upsert). *)
SqlUpdateUpsert(tbl, m, ts) ==
    IF m.id \in RowIds(tbl)
    THEN [ n |-> 1,
           tbl |-> [i \in 1..Len(tbl) |->
                     IF tbl[i].id = m.id THEN NewRow(m, ts, 0) ELSE tbl[i]] ]
    ELSE [n |-> 1, tbl |-> Append(tbl, NewRow(m, ts, 0))]

(* UPDATE memories SET content, project, type, file_path, language,        *)
(* metadata, embedding, updated_at WHERE id = ?: n is RowsAffected.        *)
SqlUpdate(tbl, m, ts) ==
    [ n |-> Cardinality({i \in 1..Len(tbl) : tbl[i].id = m.id}),
      tbl |-> [i \in 1..Len(tbl) |->
                IF tbl[i].id = m.id
                THEN [tbl[i] EXCEPT !.content = m.content,
                                    !.project = m.project,
                                    !.type = m.type,
                                    !.file_path = m.file_path,
                                    !.language = m.language,
                                    !.metadata = jsonMarshal(m.metadata),
                                    !.embedding = float32ToBytes(m.embedding),
                                    !.updated_at = ts]
                ELSE tbl[i]] ]

(* A DELETE that counts the rows it should remove and removes none. *)
SqlDeleteIdKeeps(tbl, id) ==
    [n |-> Cardinality({i \in 1..Len(tbl) : tbl[i].id = id}), tbl |-> tbl]

(* DELETE FROM memories WHERE id = ? *)
SqlDeleteId(tbl, id) ==
    [ n |-> Cardinality({i \in 1..Len(tbl) : tbl[i].id = id}),
      tbl |-> SeqFilter(tbl, {i \in 1..Len(tbl) : tbl[i].id # id}) ]

(* A DELETE without its WHERE clause: every row goes. *)
SqlDeleteProjectAll(tbl, project) == [n |-> Len(tbl), tbl |-> <<>>]

(* DELETE FROM memories WHERE project = ? *)
SqlDeleteProject(tbl, project) ==
    [ n |-> Cardinality({i \in 1..Len(tbl) : tbl[i].project = project}),
      tbl |-> SeqFilter(tbl, {i \in 1..Len(tbl) : tbl[i].project # project}) ]

(* The transaction's view of the table, its commit and its rollback. *)
TxView(tbl, pending) == tbl \o pending

TxCommit(tbl, pending) == tbl \o pending

(* A rollback that keeps what the transaction wrote. *)
TxRollbackKeeps(tbl, pending) == tbl \o pending

TxRollback(tbl, pending) == tbl

-----------------------------------------------------------------------------
(* Store.Search. *)

(* The WHERE clause Search builds from its options. *)
SearchWhere(row, opts) ==
    /\ opts.Project # "" => row.project = opts.Project
    /\ Len(opts.Types) > 0 => \E i \in 1..Len(opts.Types) : row.type = opts.Types[i]
    /\ Len(opts.FilePaths) > 0 =>
           \E i \in 1..Len(opts.FilePaths) :
               Like(row.file_path, Append(opts.FilePaths[i], "%"))

(* The threshold test of the scan loop: the row is kept. *)
KeepSimilarity(similarity, opts) ==
    ~(opts.Threshold > 0 /\ similarity < opts.Threshold)

RECURSIVE ScanLoop(_, _, _)
(* for rows.Next(): scan, score, apply the threshold, append. *)
ScanLoop(matched, embedding, opts) ==
    IF Len(matched) = 0 THEN <<>>
    ELSE LET front == ScanLoop(SubSeq(matched, 1, Len(matched) - 1), embedding, opts)
             memory == scanMemory(matched[Len(matched)])
             similarity == cosineSimilarity(embedding, memory.embedding)
         IN  IF KeepSimilarity(similarity, opts)
             THEN Append(front, [Memory |-> memory, Similarity |-> similarity])
             ELSE front

SearchLimit(opts) == IF opts.Limit <= 0 THEN DefaultLimit ELSE opts.Limit

(* No truncation. *)
ApplyLimitNone(results, limit) == results

(* The truncation: results[:limit] when there are more than limit. *)
ApplyLimit(results, limit) ==
    IF Len(results) > limit THEN SubSeq(results, 1, limit) ELSE results

SearchBody(tbl, embedding, opts) ==
    LET matched == SeqFilter(tbl, {i \in 1..Len(tbl) : SearchWhere(tbl[i], opts)})
        results == ScanLoop(matched, embedding, opts)
    IN  ApplyLimit(sortBySimilarity(results), SearchLimit(opts))

-----------------------------------------------------------------------------
(* Store.List, Store.Count, Store.Stats. *)

ListWhere(row, opts) ==
    /\ opts.Project # "" => row.project = opts.Project
    /\ opts.Type # "" => row.type = opts.Type

OrderKey(row, opts) ==
    IF opts.OrderBy = "updated_at" THEN row.updated_at ELSE row.created_at

RECURSIVE OrderBy(_, _)
(* ORDER BY key ASC|DESC; rows with equal keys stay in rowid order. *)
OrderBy(s, opts) ==
    IF Len(s) = 0 THEN <<>>
    ELSE LET Before(a, b) == IF opts.Descending
                             THEN OrderKey(a, opts) > OrderKey(b, opts)
                             ELSE OrderKey(a, opts) < OrderKey(b, opts)
             i == CHOOSE k \in 1..Len(s) :
                    /\ \A l \in 1..Len(s) : ~Before(s[l], s[k])
                    /\ \A l \in 1..(k - 1) : Before(s[k], s[l])
         IN  <<s[i]>> \o OrderBy(SeqFilter(s, (1..Len(s)) \ {i}), opts)

ListLimit(opts) == IF opts.Limit <= 0 THEN DefaultListLimit ELSE opts.Limit

(* LIMIT ? OFFSET ?: a negative offset counts as 0. *)
LimitOffset(s, limit, offset) ==
    LET from == IF offset < 0 THEN 0 ELSE offset
    IN  SubSeq(s, from + 1, Min(Len(s), from + limit))

ListBody(tbl, opts) ==
    LET matched == SeqFilter(tbl, {i \in 1..Len(tbl) : ListWhere(tbl[i], opts)})
        page == LimitOffset(OrderBy(matched, opts), ListLimit(opts), opts.Offset)
    IN  [i \in 1..Len(page) |-> scanMemory(page[i])]

(* SELECT COUNT( * ) FROM memories [WHERE project = ?] *)
CountBody(tbl, project) ==
    IF project = "" THEN Len(tbl)
    ELSE Cardinality({i \in 1..Len(tbl) : tbl[i].project = project})

(* SELECT type, COUNT( * ) FROM memories GROUP BY type *)
CountByType(tbl) ==
    [t \in {tbl[i].type : i \in 1..Len(tbl)} |->
        Cardinality({i \in 1..Len(tbl) : tbl[i].type = t})]

(* SELECT COUNT(DISTINCT project) FROM memories *)
CountProjects(tbl) == Cardinality({tbl[i].project : i \in 1..Len(tbl)})

-----------------------------------------------------------------------------
(* The callers and what they submit. *)

WriteOps == {"Add", "Update", "Delete", "AddBatch", "DeleteByProject", "Compact"}

ReadOps == {"Get", "List", "Count", "Stats", "Search"}

Batches(ms) == UNION {[1..n -> ms] : n \in 0..MaxBatch}

SearchOptions(projects, typeLists, limits, thresholds, pathLists) ==
    [Project : projects, Types : typeLists, Limit : limits,
     Threshold : thresholds, FilePaths : pathLists]

ListOptions(projects, types, limits, offsets, orders, descs) ==
    [Project : projects, Type : types, Limit : limits, Offset : offsets,
     OrderBy : orders, Descending : descs]

(* One caller at a time, every operation; id 1 comes in two versions. *)
SeqLoad ==
    [ procs |-> {1},
      mems |-> {MemOf(1, 2)} \cup {MemOf(i, 1) : i \in 1..NumIds},
      batches |-> Batches({MemOf(1, 2), MemOf(2, 1)}),
      ids |-> 1..NumIds,
      projects |-> {"", "A", "B"},
      queries |-> {<<1, 0>>},
      searches |-> SearchOptions({"", "A"}, {<<>>}, {0, 1}, {0, 500},
                                 {<<>>, << <<"s">> >>}),
      lists |-> ListOptions({"", "A"}, {"", "context"}, {0, 1}, {0}, {""},
                            BOOLEAN) ]

(* One caller at a time that adds memories and searches them, with a wide  *)
(* choice of search options.                                               *)
SearchLoad ==
    [ procs |-> {1},
      mems |-> MemsOf(1..SearchIds),
      batches |-> {<<>>},
      ids |-> 1..SearchIds,
      projects |-> {""},
      queries |-> {<<1, 0>>, <<1, 1>>},
      searches |-> SearchOptions({"", "A"}, {<<>>, <<"pattern">>}, {0, 1, 2},
                                 {0, 500},
                                 {<<>>, << <<"s">> >>, << <<"S", "r">>, <<"_">> >>}),
      lists |-> {} ]

(* One caller at a time that stores one batch of BigN memories, in         *)
(* ascending or in descending order of id, and searches it.                *)
BigBatch == [i \in 1..BigN |-> MemOf(i, 1 + ((i \div 2) % 2))]

BigLoad ==
    [ procs |-> {1},
      mems |-> {},
      batches |-> {BigBatch, Reverse(BigBatch)},
      ids |-> 1..BigN,
      projects |-> {""},
      queries |-> {<<1, 0>>, <<1, 1>>},
      searches |-> SearchOptions({"", "A"}, {<<>>}, {-1, 0, 1, 5, 11}, {0, 500},
                                 {<<>>, << <<"s">> >>}),
      lists |-> {} ]

(* One caller at a time that adds, batches and updates memories, some of   *)
(* them with a created_at of their own, while the clock advances.          *)
ClockLoad ==
    [ procs |-> {1},
      mems |-> MemsOf(1..NumIds),
      batches |-> Batches({MemOf(1, 2), MemOf(2, 1)}),
      ids |-> 1..NumIds,
      projects |-> {""},
      queries |-> {},
      searches |-> {},
      lists |-> {} ]

(* Concurrent callers, with a narrow choice of arguments. *)
ConcLoad ==
    [ procs |-> 1..NumProcs,
      mems |-> {MemOf(1, 1)},
      batches |-> Batches({MemOf(1, 2), MemOf(2, 1)}),
      ids |-> {1},
      projects |-> {"A"},
      queries |-> {<<1, 0>>},
      searches |-> SearchOptions({""}, {<<>>}, {1}, {0}, {<<>>}),
      lists |-> ListOptions({""}, {""}, {0}, {0}, {""}, {FALSE}) ]

Blank == [err |-> FALSE, arg |-> <<>>, out |-> <<>>, pre |-> <<>>]

NoTx == [active |-> FALSE, batch |-> <<>>, n |-> 0, pending |-> <<>>,
         pre |-> <<>>, ts |-> 0, failed |-> FALSE]

(* internal/cache: the data of the LRU cache and of the embedding cache. *)

\* The texts whose embeddings are cached.
Texts == {"t1", "t2", "t3"}

\* hashContent: the hex form of the first 16 bytes of the SHA-256 of the text,
\* taken as free of collisions: a key is the text under the hash.
hashContent(content) == <<"sha256", content>>

Keys == {hashContent(t) : t \in Texts}

\* make([]float32, len(v)) followed by copy: a slice of its own, same elements.
CopyOf(v) == [i \in 1..Len(v) |-> v[i]]

\* What the Ollama server answers for a text, as parseEmbeddingStream reads it.
RemoteEmbedding(text) ==
    CASE text = "t1" -> <<1, 0>>
      [] text = "t2" -> <<0, 1>>
      [] OTHER       -> <<1, 1>>

\* The call frame of a process that runs no cache call.
CBlank == [fn |-> "none", embed |-> FALSE, text |-> "", key |-> <<>>,
           value |-> <<>>, ok |-> FALSE, err |-> "", sent |-> FALSE,
           result |-> <<>>, pre |-> <<>>, preUsed |-> <<>>, first |-> <<>>]

NoUse == [gets |-> 0, found |-> 0, notFound |-> 0, used |-> <<>>,
          lastPut |-> [k \in Keys |-> <<>>], first |-> [t \in Texts |-> <<>>],
          failed |-> {},
          before |-> [requests |-> 0, keys |-> <<>>, failed |-> FALSE]]

\* No chunker call in progress.
NoChunking == [pc |-> "idle", chunker |-> "none", content |-> <<>>,
               maxSize |-> 0, overlap |-> 0, chunks |-> <<>>]

\* No EmbedBatch call in progress.
NoBatch == [pc |-> "idle", texts |-> <<>>, i |-> 0, embeddings |-> <<>>,
            errIndex |-> -1, got |-> <<>>]

\* No request, no entry of a file tree.
NoRequest == [Content |-> <<>>, Project |-> "", Type |-> "", Path |-> "",
              Entries |-> <<>>]

NoEntry == [path |-> <<>>, name |-> "", ext |-> "", isDir |-> FALSE,
            depth |-> 0, stat |-> TRUE, readable |-> TRUE, lines |-> <<>>]

\* The service before NewService: no call in progress, none made yet.
NoCall == [pc |-> "idle", fn |-> "none", built |-> FALSE,
           config |-> [EmbedBatchSize |-> 0, DefaultProject |-> ""],
           req |-> NoRequest, file |-> NoEntry, dir |-> FALSE, at |-> 0,
           texts |-> <<>>, chunks |-> <<>>, embeddings |-> <<>>,
           memories |-> <<>>, count |-> 0, result |-> <<>>, err |-> "",
           calls |-> 0, uuids |-> 0, pre |-> <<>>, seen |-> <<>>,
           nEmbed |-> 0, nStore |-> 0, failed |-> FALSE,
           cancelled |-> FALSE, cancelAt |-> 0, cancelPc |-> "idle",
           committedAt |-> 0]

(* No topKResults call. *)
NoTopK == [pc |-> "idle", results |-> <<>>, k |-> 0, out |-> <<>>,
           strategy |-> "none"]

(* No BatchCosineSimilarity call. *)
NoKernel == [pc |-> "idle", query |-> <<>>, targets |-> <<>>,
             similarities |-> <<>>, panic |-> FALSE]

(* No HTTP request. *)
NoExchange == [pc |-> "idle", route |-> "", method |-> "", decodes |-> TRUE,
               id |-> "", arg |-> "", fails |-> "", err |-> "", status |-> 0,
               json |-> FALSE, error |-> ""]

(* moneta serve before runServe. *)
NoServer == [main |-> "init", sig |-> "wait", server |-> "nil",
             handlers |-> [h \in 1..NumHandlers |-> "idle"],
             closed |-> FALSE, signalled |-> FALSE, late |-> FALSE]

InitStore ==
    /\ rows = <<>>
    /\ writer = 0
    /\ readers = {}
    /\ pc = [p \in 1..NumProcs |-> "idle"]
    /\ op = [p \in 1..NumProcs |-> "none"]
    /\ tx = [p \in 1..NumProcs |-> NoTx]
    /\ ret = [p \in 1..NumProcs |-> Blank]
    /\ now = 1
    /\ hist = [i \in Ids |-> [added |-> <<>>, del |-> "never"]]
    /\ svc = NoCall
    /\ ebatch = NoBatch
    /\ chk = NoChunking
    /\ topk = NoTopK
    /\ kern = NoKernel
    /\ web = NoExchange
    /\ srv = NoServer

\* NewLRU(capacity): empty map, empty list, counters at zero.
NewLRU(caps) ==
    /\ capacity \in caps
    /\ items = {}
    /\ order = <<>>
    /\ hits = 0
    /\ misses = 0
    /\ cmu = 0
    /\ cpc = [p \in 1..NumProcs |-> "idle"]
    /\ frame = [p \in 1..NumProcs |-> CBlank]
    /\ requests = 0
    /\ chist = NoUse

Init ==
    /\ InitStore
    /\ NewLRU({DefaultCacheSize})

-----------------------------------------------------------------------------
(* Calling an operation and taking s.mu. *)

Call(p) ==
    /\ pc[p] = "idle"
    /\ \E o \in WriteOps \cup ReadOps : op' = [op EXCEPT ![p] = o]
    /\ pc' = [pc EXCEPT ![p] = "lock"]
    /\ UNCHANGED <<rows, writer, readers, tx, ret, now, hist>>
    /\ UNCHANGED notStore

(* A Lock that waits for the writer only, not for the readers. *)
LockPastReaders(p) ==
    /\ pc[p] = "lock"
    /\ op[p] \in WriteOps
    /\ writer = 0
    /\ writer' = p
    /\ pc' = [pc EXCEPT ![p] = "cs"]
    /\ UNCHANGED <<rows, readers, op, tx, ret, now, hist>>
    /\ UNCHANGED notStore

(* s.mu.Lock() *)
Lock(p) ==
    /\ pc[p] = "lock"
    /\ op[p] \in WriteOps
    /\ writer = 0
    /\ readers = {}
    /\ writer' = p
    /\ pc' = [pc EXCEPT ![p] = "cs"]
    /\ UNCHANGED <<rows, readers, op, tx, ret, now, hist>>
    /\ UNCHANGED notStore

(* s.mu.RLock() *)
RLock(p) ==
    /\ pc[p] = "lock"
    /\ op[p] \in ReadOps
    /\ writer = 0
    /\ readers' = readers \cup {p}
    /\ pc' = [pc EXCEPT ![p] = "cs"]
    /\ UNCHANGED <<rows, writer, op, tx, ret, now, hist>>
    /\ UNCHANGED notStore

(* The statements of an operation have run: its result is in ret. *)
Done(p, r) ==
    /\ pc' = [pc EXCEPT ![p] = "ret"]
    /\ ret' = [ret EXCEPT ![p] = r]

(* The history of id i after a successful insert of it by Add (<<m>>) or   *)
(* by AddBatch (<<>>).                                                     *)
Inserted(h, added) ==
    [added |-> added, del |-> IF h.del = "never" THEN "never" ELSE "readded"]

-----------------------------------------------------------------------------
(* The writing operations. *)

Add(p, W) ==
    /\ pc[p] = "cs"
    /\ op[p] = "Add"
    /\ \E m \in W.mems :
          LET r == SqlInsert(rows, NewRow(m, now, 0))
          IN  /\ rows' = r.tbl
              /\ hist' = IF r.ok THEN [hist EXCEPT ![m.id] = Inserted(@, <<m>>)]
                         ELSE hist
              /\ Done(p, [err |-> ~r.ok, arg |-> m, out |-> <<>>, pre |-> rows])
    /\ UNCHANGED <<writer, readers, op, tx, now>>
    /\ UNCHANGED notStore

Update(p, W) ==
    /\ pc[p] = "cs"
    /\ op[p] = "Update"
    /\ \E m \in W.mems :
          LET r == SqlUpdate(rows, m, now)
          IN  /\ rows' = r.tbl
              /\ hist' = IF r.n # 0 THEN [hist EXCEPT ![m.id].added = <<>>]
                         ELSE hist
              /\ Done(p, [err |-> r.n = 0, arg |-> m, out |-> <<>>, pre |-> rows])
    /\ UNCHANGED <<writer, readers, op, tx, now>>
    /\ UNCHANGED notStore

Delete(p, W) ==
    /\ pc[p] = "cs"
    /\ op[p] = "Delete"
    /\ \E id \in W.ids :
          LET r == SqlDeleteId(rows, id)
          IN  /\ rows' = r.tbl
              /\ hist' = IF r.n # 0
                         THEN [hist EXCEPT ![id] = [added |-> <<>>, del |-> "deleted"]]
                         ELSE hist
              /\ Done(p, [err |-> r.n = 0, arg |-> id, out |-> <<>>, pre |-> rows])
    /\ UNCHANGED <<writer, readers, op, tx, now>>
    /\ UNCHANGED notStore

DeleteByProject(p, W) ==
    /\ pc[p] = "cs"
    /\ op[p] = "DeleteByProject"
    /\ \E project \in W.projects :
          LET r == SqlDeleteProject(rows, project)
              hit == {rows[i].id : i \in {k \in 1..Len(rows) : rows[k].project = project}}
          IN  /\ rows' = r.tbl
              /\ hist' = [i \in Ids |->
                            IF i \in hit THEN [hist[i] EXCEPT !.added = <<>>]
                            ELSE hist[i]]
              /\ Done(p, [err |-> FALSE, arg |-> project, out |-> <<>>, pre |-> rows])
    /\ UNCHANGED <<writer, readers, op, tx, now>>
    /\ UNCHANGED notStore

(* VACUUM rewrites the file; the rows stay. *)
Compact(p) ==
    /\ pc[p] = "cs"
    /\ op[p] = "Compact"
    /\ Done(p, [err |-> FALSE, arg |-> <<>>, out |-> <<>>, pre |-> rows])
    /\ UNCHANGED <<rows, writer, readers, op, tx, now, hist>>
    /\ UNCHANGED notStore

(* AddBatch: s.db.BeginTx, tx.PrepareContext, now := time.Now(). *)
BeginTx(p, W) ==
    /\ pc[p] = "cs"
    /\ op[p] = "AddBatch"
    /\ \E b \in W.batches :
          tx' = [tx EXCEPT ![p] = [active |-> TRUE, batch |-> b, n |-> 0,
                                   pending |-> <<>>, pre |-> rows, ts |-> now,
                                   failed |-> FALSE]]
    /\ pc' = [pc EXCEPT ![p] = "tx"]
    /\ UNCHANGED <<rows, writer, readers, op, ret, now, hist>>
    /\ UNCHANGED notStore

(* AddBatch as a loop of Add: each memory is inserted and committed on   *)
(* its own, and s.mu is released between two inserts.                      *)
ExecBatchPerRow(p) ==
    /\ pc[p] = "tx"
    /\ tx[p].n < Len(tx[p].batch)
    /\ writer \in {0, p}
    /\ writer = 0 => readers = {}
    /\ LET m == tx[p].batch[tx[p].n + 1]
           r == SqlInsert(rows, NewRow(m, tx[p].ts, p))
       IN  /\ rows' = r.tbl
           /\ IF r.ok
              THEN /\ tx' = [tx EXCEPT ![p].n = @ + 1]
                   /\ writer' = 0
                   /\ UNCHANGED <<pc, ret>>
              ELSE /\ tx' = [tx EXCEPT ![p].failed = TRUE]
                   /\ writer' = p
                   /\ Done(p, [err |-> TRUE, arg |-> tx[p].batch, out |-> <<>>,
                               pre |-> tx[p].pre])
    /\ UNCHANGED <<readers, op, now, hist>>
    /\ UNCHANGED notStore

(* AddBatch: one turn of the loop, stmt.ExecContext for the next memory.   *)
(* A refused insert returns the error; the deferred tx.Rollback() drops    *)
(* what the transaction has written.                                       *)
ExecBatch(p) ==
    /\ pc[p] = "tx"
    /\ tx[p].n < Len(tx[p].batch)
    /\ LET m == tx[p].batch[tx[p].n + 1]
           r == SqlInsert(TxView(rows, tx[p].pending), NewRow(m, tx[p].ts, p))
       IN  IF r.ok
           THEN /\ tx' = [tx EXCEPT ![p].n = @ + 1,
                                    ![p].pending = SubSeq(r.tbl, Len(rows) + 1, Len(r.tbl))]
                /\ UNCHANGED <<rows, pc, ret>>
           ELSE /\ rows' = TxRollback(rows, tx[p].pending)
                /\ tx' = [tx EXCEPT ![p].pending = <<>>, ![p].failed = TRUE]
                /\ Done(p, [err |-> TRUE, arg |-> tx[p].batch, out |-> <<>>,
                            pre |-> tx[p].pre])
    /\ UNCHANGED <<writer, readers, op, now, hist>>
    /\ UNCHANGED notStore

(* AddBatch: return tx.Commit(). *)
CommitTx(p) ==
    /\ pc[p] = "tx"
    /\ tx[p].n = Len(tx[p].batch)
    /\ rows' = TxCommit(rows, tx[p].pending)
    /\ tx' = [tx EXCEPT ![p].pending = <<>>]
    /\ hist' = [i \in Ids |->
                  IF \E k \in 1..Len(tx[p].batch) : tx[p].batch[k].id = i
                  THEN Inserted(hist[i], <<>>)
                  ELSE hist[i]]
    /\ Done(p, [err |-> FALSE, arg |-> tx[p].batch, out |-> <<>>, pre |-> tx[p].pre])
    /\ UNCHANGED <<writer, readers, op, now>>
    /\ UNCHANGED notStore

-----------------------------------------------------------------------------
(* The reading operations. *)

Get(p, W) ==
    /\ pc[p] = "cs"
    /\ op[p] = "Get"
    /\ \E id \in W.ids :
          LET found == SeqFilter(rows, {i \in 1..Len(rows) : rows[i].id = id})
          IN  Done(p, [err |-> Len(found) = 0, arg |-> id,
                       out |-> IF Len(found) = 0 THEN <<>>
                               ELSE <<scanMemory(found[1])>>,
                       pre |-> rows])
    /\ UNCHANGED <<rows, writer, readers, op, tx, now, hist>>
    /\ UNCHANGED notStore

Search(p, W) ==
    /\ pc[p] = "cs"
    /\ op[p] = "Search"
    /\ \E q \in W.queries, o \in W.searches :
          Done(p, [err |-> FALSE, arg |-> [embedding |-> q, opts |-> o],
                   out |-> SearchBody(rows, q, o), pre |-> rows])
    /\ UNCHANGED <<rows, writer, readers, op, tx, now, hist>>
    /\ UNCHANGED notStore

List(p, W) ==
    /\ pc[p] = "cs"
    /\ op[p] = "List"
    /\ \E o \in W.lists :
          Done(p, [err |-> FALSE, arg |-> o, out |-> ListBody(rows, o), pre |-> rows])
    /\ UNCHANGED <<rows, writer, readers, op, tx, now, hist>>
    /\ UNCHANGED notStore

Count(p, W) ==
    /\ pc[p] = "cs"
    /\ op[p] = "Count"
    /\ \E project \in W.projects :
          Done(p, [err |-> FALSE, arg |-> project,
                   out |-> CountBody(rows, project), pre |-> rows])
    /\ UNCHANGED <<rows, writer, readers, op, tx, now, hist>>
    /\ UNCHANGED notStore

(* Stats runs three statements, each on the table as it is then. *)
StatsTotal(p) ==
    /\ pc[p] = "cs"
    /\ op[p] = "Stats"
    /\ ret' = [ret EXCEPT ![p] = [err |-> FALSE, arg |-> <<>>,
                                  out |-> <<Len(rows)>>, pre |-> rows]]
    /\ pc' = [pc EXCEPT ![p] = "stats2"]
    /\ UNCHANGED <<rows, writer, readers, op, tx, now, hist>>
    /\ UNCHANGED notStore

StatsTypes(p) ==
    /\ pc[p] = "stats2"
    /\ ret' = [ret EXCEPT ![p].out = Append(@, CountByType(rows)), ![p].pre = rows]
    /\ pc' = [pc EXCEPT ![p] = "stats3"]
    /\ UNCHANGED <<rows, writer, readers, op, tx, now, hist>>
    /\ UNCHANGED notStore

StatsProjects(p) ==
    /\ pc[p] = "stats3"
    /\ ret' = [ret EXCEPT ![p].out = Append(@, CountProjects(rows)), ![p].pre = rows]
    /\ pc' = [pc EXCEPT ![p] = "ret"]
    /\ UNCHANGED <<rows, writer, readers, op, tx, now, hist>>
    /\ UNCHANGED notStore

-----------------------------------------------------------------------------
(* The return: the deferred Unlock / RUnlock. *)

Untag(tbl, p) ==
    [i \in 1..Len(tbl) |-> IF tbl[i].batch = p THEN [tbl[i] EXCEPT !.batch = 0]
                           ELSE tbl[i]]

(* A return that skips the deferred unlock when the operation failed. *)
ReturnLeaksOnError(p) ==
    /\ pc[p] = "ret"
    /\ pc' = [pc EXCEPT ![p] = "idle"]
    /\ writer' = IF writer = p /\ ~ret[p].err THEN 0 ELSE writer
    /\ readers' = IF ret[p].err THEN readers ELSE readers \ {p}
    /\ rows' = Untag(rows, p)
    /\ tx' = [tx EXCEPT ![p] = NoTx]
    /\ ret' = [ret EXCEPT ![p] = Blank]
    /\ op' = [op EXCEPT ![p] = "none"]
    /\ UNCHANGED <<now, hist>>

ReturnBody(p) ==
    /\ pc[p] = "ret"
    /\ pc' = [pc EXCEPT ![p] = "idle"]
    /\ writer' = IF writer = p THEN 0 ELSE writer
    /\ readers' = readers \ {p}
    /\ rows' = Untag(rows, p)
    /\ tx' = [tx EXCEPT ![p] = NoTx]
    /\ ret' = [ret EXCEPT ![p] = Blank]
    /\ op' = [op EXCEPT ![p] = "none"]
    /\ UNCHANGED <<now, hist>>

Return(p) ==
    /\ ReturnBody(p)
    /\ UNCHANGED notStore

-----------------------------------------------------------------------------

Step(p, W) ==
    \/ Call(p)
    \/ Lock(p)
    \/ RLock(p)
    \/ Add(p, W)
    \/ Update(p, W)
    \/ Delete(p, W)
    \/ DeleteByProject(p, W)
    \/ Compact(p)
    \/ BeginTx(p, W)
    \/ ExecBatch(p)
    \/ CommitTx(p)
    \/ Get(p, W)
    \/ Search(p, W)
    \/ List(p, W)
    \/ Count(p, W)
    \/ StatsTotal(p)
    \/ StatsTypes(p)
    \/ StatsProjects(p)
    \/ Return(p)

Next == \E p \in SeqLoad.procs : Step(p, SeqLoad)

(* The operation called is one of ops. *)
CallOf(p, ops) == Call(p) /\ op'[p] \in ops

NextSearch ==
    \E p \in SearchLoad.procs :
        \/ CallOf(p, {"Add", "Search"})
        \/ Lock(p)
        \/ RLock(p)
        \/ Add(p, SearchLoad)
        \/ Search(p, SearchLoad)
        \/ Return(p)

SpecSearch == Init /\ [][NextSearch]_vars

NextBig ==
    \E p \in BigLoad.procs :
        \/ CallOf(p, {"AddBatch", "Search"})
        \/ Lock(p)
        \/ RLock(p)
        \/ BeginTx(p, BigLoad)
        \/ ExecBatch(p)
        \/ CommitTx(p)
        \/ Search(p, BigLoad)
        \/ Return(p)

(* time.Now() has moved on. *)
Tick ==
    /\ now < MaxNow
    /\ now' = now + 1
    /\ UNCHANGED <<rows, writer, readers, pc, op, tx, ret, hist>>
    /\ UNCHANGED notStore

NextClock ==
    \/ Tick
    \/ \E p \in ClockLoad.procs :
          \/ CallOf(p, {"Add", "Update", "AddBatch"})
          \/ Lock(p)
          \/ Add(p, ClockLoad)
          \/ Update(p, ClockLoad)
          \/ BeginTx(p, ClockLoad)
          \/ ExecBatch(p)
          \/ CommitTx(p)
          \/ Return(p)

SpecClock == Init /\ [][NextClock]_vars

SpecBig == Init /\ [][NextBig]_vars

Spec == Init /\ [][Next]_vars

NextConc == \E p \in ConcLoad.procs : Step(p, ConcLoad)

SpecConc == Init /\ [][NextConc]_vars

-----------------------------------------------------------------------------
(* s.mu is a sync.RWMutex.  For progress its waiting matters: a Lock that  *)
(* has the writers' mutex announces itself, and from then on every RLock   *)
(* blocks until that writer has unlocked; the writer waits for the readers *)
(* that hold the lock to leave; the readers blocked are let in before the  *)
(* next writer.  pc "pending" is the announced writer, pc "blocked" a      *)
(* reader held back by a writer.                                           *)

LiveLoad == [ConcLoad EXCEPT !.batches = Batches({MemOf(1, 2)})]

WriterAhead == writer # 0 \/ \E q \in LiveLoad.procs : pc[q] = "pending"

(* s.mu.Lock(), first half: the writers' mutex is free, no reader blocked  *)
(* by the writer before is still waiting, and the writer announces itself.  *)
LockAnnounce(p) ==
    /\ pc[p] = "lock"
    /\ op[p] \in WriteOps
    /\ ~WriterAhead
    /\ \A q \in LiveLoad.procs : pc[q] # "blocked"
    /\ pc' = [pc EXCEPT ![p] = "pending"]
    /\ UNCHANGED <<rows, writer, readers, op, tx, ret, now, hist>>
    /\ UNCHANGED notStore

(* s.mu.Lock(), second half: the readers have left. *)
LockAcquire(p) ==
    /\ pc[p] = "pending"
    /\ readers = {}
    /\ writer' = p
    /\ pc' = [pc EXCEPT ![p] = "cs"]
    /\ UNCHANGED <<rows, readers, op, tx, ret, now, hist>>
    /\ UNCHANGED notStore

(* s.mu.RLock(): taken at once, or blocked behind a writer. *)
RLockOrBlock(p) ==
    /\ pc[p] = "lock"
    /\ op[p] \in ReadOps
    /\ IF WriterAhead
       THEN /\ pc' = [pc EXCEPT ![p] = "blocked"]
            /\ UNCHANGED readers
       ELSE /\ pc' = [pc EXCEPT ![p] = "cs"]
            /\ readers' = readers \cup {p}
    /\ UNCHANGED <<rows, writer, op, tx, ret, now, hist>>
    /\ UNCHANGED notStore

(* The writer's Unlock has released the blocked reader. *)
RLockWake(p) ==
    /\ pc[p] = "blocked"
    /\ ~WriterAhead
    /\ pc' = [pc EXCEPT ![p] = "cs"]
    /\ readers' = readers \cup {p}
    /\ UNCHANGED <<rows, writer, op, tx, ret, now, hist>>
    /\ UNCHANGED notStore

(* The statements of an operation other than AddBatch, between taking     *)
(* s.mu and the return: they end with a result or with an error.  What    *)
(* they do to the table is the subject of the other specifications; here  *)
(* only the way to the return counts.                                      *)
Statements(p) ==
    /\ pc[p] = "cs"
    /\ op[p] # "AddBatch"
    /\ \E e \in BOOLEAN : ret' = [ret EXCEPT ![p].err = e]
    /\ pc' = [pc EXCEPT ![p] = "ret"]
    /\ UNCHANGED <<rows, writer, readers, op, tx, now, hist>>
    /\ UNCHANGED notStore

(* What an invoked operation does once it has s.mu, up to its return. *)
Run(p, W) ==
    \/ Statements(p)
    \/ BeginTx(p, W)
    \/ ExecBatch(p)
    \/ CommitTx(p)
    \/ Return(p)

NextLive ==
    \E p \in LiveLoad.procs :
        \/ Call(p)
        \/ LockAnnounce(p)
        \/ LockAcquire(p)
        \/ RLockOrBlock(p)
        \/ RLockWake(p)
        \/ Statements(p)
        \/ BeginTx(p, LiveLoad)
        \/ ExecBatch(p)
        \/ CommitTx(p)
        \/ Return(p)

(* Scheduling: a goroutine that can take a step is scheduled (weak         *)
(* fairness of every step after the call), and sync.Mutex hands the        *)
(* writers' mutex to a goroutine that keeps waiting for it (strong         *)
(* fairness of the announcement).  Nothing obliges a caller to call.       *)
FairLive ==
    \A p \in LiveLoad.procs :
        /\ WF_vars(Run(p, LiveLoad) \/ LockAcquire(p) \/ RLockOrBlock(p)
                       \/ RLockWake(p))
        /\ SF_vars(LockAnnounce(p))

SpecLive == Init /\ [][NextLive]_vars /\ FairLive

-----------------------------------------------------------------------------
(* internal/cache/lru.go: LRU[string, []float32] under EmbeddingCache.     *)
(*                                                                         *)
(* order is the list, most recently used first; an entry is its key, its   *)
(* value (the slice stored) and shared: whether a caller holds that very   *)
(* slice, so that the caller's writes land in the cache's entry.  A call   *)
(* is call -> take c.mu -> body -> return (the deferred unlock).           *)

(* container/list, on the sequence of entries. *)
IndexOfKey(ord, key) == CHOOSE i \in 1..Len(ord) : ord[i].key = key

(* A MoveToFront that leaves the element where it is. *)
KeepInPlace(ord, i) == ord

MoveToFront(ord, i) == <<ord[i]>> \o SeqFilter(ord, (1..Len(ord)) \ {i})

PushFront(ord, e) == <<e>> \o ord

(* A Remove that leaves the element in the list. *)
RemoveAtKeeps(ord, i) == ord

RemoveAt(ord, i) == SeqFilter(ord, (1..Len(ord)) \ {i})

KeysOf(ord) == [i \in 1..Len(ord) |-> ord[i].key]

(* History: key becomes the most recently used key. *)
Touch(used, key) ==
    <<key>> \o SeqFilter(used, {i \in 1..Len(used) : used[i] # key})

(* History: the keys in gone have left the cache. *)
Forget(h, gone) ==
    [h EXCEPT !.lastPut = [k \in Keys |-> IF k \in gone THEN <<>> ELSE @[k]],
              !.first = [t \in Texts |->
                            IF hashContent(t) \in gone THEN <<>> ELSE @[t]]]

(* The workloads of the cache: a single caller with every capacity, and    *)
(* concurrent callers on a cache of capacity 1.                            *)
Vectors == {<<1, 0>>, <<0, 1>>}

CacheLoad == [procs |-> {1}, texts |-> Texts, vectors |-> Vectors,
              caps |-> 0..MaxCap]

CacheConcLoad == [procs |-> 1..NumProcs, texts |-> {"t1", "t2"},
                  vectors |-> {<<1, 0>>}, caps |-> {1}]

EmbedLoad == [procs |-> {1}, texts |-> Texts, vectors |-> Vectors,
              caps |-> 1..MaxCap]

CacheFrame == <<capacity, items, order, hits, misses, cmu, requests>>

(* EmbeddingCache.Get(content): the key is the hash of the content. *)
CallGet(p, W) ==
    /\ cpc[p] = "idle"
    /\ chist.gets < MaxGets
    /\ \E t \in W.texts :
         frame' = [frame EXCEPT ![p] =
                      [CBlank EXCEPT !.fn = "Get", !.text = t,
                                     !.key = hashContent(t)]]
    /\ cpc' = [cpc EXCEPT ![p] = "lock"]
    /\ chist' = [chist EXCEPT !.gets = @ + 1]
    /\ UNCHANGED CacheFrame
    /\ UNCHANGED notCache

(* EmbeddingCache.Put(content, embedding): the value handed to the LRU is  *)
(* a copy of the caller's slice.                                           *)
CallPut(p, W) ==
    /\ cpc[p] = "idle"
    /\ \E t \in W.texts, v \in W.vectors :
         frame' = [frame EXCEPT ![p] =
                      [CBlank EXCEPT !.fn = "Put", !.text = t,
                                     !.key = hashContent(t),
                                     !.value = CopyOf(v)]]
    /\ cpc' = [cpc EXCEPT ![p] = "lock"]
    /\ UNCHANGED chist
    /\ UNCHANGED CacheFrame
    /\ UNCHANGED notCache

(* LRU.Delete(key) *)
CallDelete(p, W) ==
    /\ cpc[p] = "idle"
    /\ \E t \in W.texts :
         frame' = [frame EXCEPT ![p] =
                      [CBlank EXCEPT !.fn = "Delete", !.text = t,
                                     !.key = hashContent(t)]]
    /\ cpc' = [cpc EXCEPT ![p] = "lock"]
    /\ UNCHANGED chist
    /\ UNCHANGED CacheFrame
    /\ UNCHANGED notCache

(* LRU.Clear() *)
CallClear(p) ==
    /\ cpc[p] = "idle"
    /\ frame' = [frame EXCEPT ![p] = [CBlank EXCEPT !.fn = "Clear"]]
    /\ cpc' = [cpc EXCEPT ![p] = "lock"]
    /\ UNCHANGED chist
    /\ UNCHANGED CacheFrame
    /\ UNCHANGED notCache

(* c.mu.Lock() *)
CacheLock(p) ==
    /\ cpc[p] = "lock"
    /\ cmu = 0
    /\ cmu' = p
    /\ cpc' = [cpc EXCEPT ![p] = "cs"]
    /\ UNCHANGED <<capacity, items, order, hits, misses, frame, requests, chist>>
    /\ UNCHANGED notCache

(* LRU.Get: a miss counts a miss and returns the zero value; a hit counts  *)
(* a hit, moves the element to the front and returns the stored slice      *)
(* itself.                                                                 *)
LRUGet(p) ==
    /\ cpc[p] = "cs"
    /\ frame[p].fn = "Get"
    /\ IF frame[p].key \notin items
       THEN /\ misses' = misses + 1
            /\ frame' = [frame EXCEPT ![p].ok = FALSE, ![p].value = <<>>]
            /\ UNCHANGED <<order, hits, chist>>
       ELSE LET i == IndexOfKey(order, frame[p].key)
            IN  /\ hits' = hits + 1
                /\ order' = MoveToFront([order EXCEPT ![i].shared = TRUE], i)
                /\ frame' = [frame EXCEPT ![p].ok = TRUE,
                                          ![p].value = order[i].value]
                /\ chist' = [chist EXCEPT
                                !.used = Touch(@, frame[p].key)]
                /\ UNCHANGED misses
    /\ cpc' = [cpc EXCEPT ![p] = "unlock"]
    /\ UNCHANGED <<capacity, items, cmu, requests>>
    /\ UNCHANGED notCache

(* LRU.Put: an existing key gets the value and moves to the front; a new   *)
(* key is pushed at the front, after the back element is removed when the  *)
(* list is at capacity and has a back element.                             *)
LRUPut(p) ==
    /\ cpc[p] = "cs"
    /\ frame[p].fn = "Put"
    /\ LET key == frame[p].key
           entry == [key |-> key, value |-> frame[p].value, shared |-> FALSE]
           evict == Len(order) >= capacity /\ Len(order) > 0
           gone == IF key \notin items /\ evict
                   THEN {order[Len(order)].key} ELSE {}
       IN  /\ IF key \in items
              THEN LET i == IndexOfKey(order, key)
                   IN  /\ order' = MoveToFront([order EXCEPT ![i] = entry], i)
                       /\ UNCHANGED items
              ELSE /\ order' = PushFront(
                                  IF evict THEN RemoveAt(order, Len(order))
                                           ELSE order, entry)
                   /\ items' = (items \ gone) \cup {key}
           /\ chist' = [Forget(chist, gone) EXCEPT
                           !.used = Touch(@, key),
                           !.lastPut[key] = <<frame[p].value>>,
                           !.first[frame[p].text] =
                               IF frame[p].embed /\ @ = <<>>
                               THEN <<frame[p].result>> ELSE @]
    /\ frame' = [frame EXCEPT ![p].pre = KeysOf(order),
                              ![p].preUsed = chist.used]
    /\ cpc' = [cpc EXCEPT ![p] = "unlock"]
    /\ UNCHANGED <<capacity, hits, misses, cmu, requests>>
    /\ UNCHANGED notCache

(* LRU.Delete: the element of the key, if any, leaves the list and the map. *)
LRUDelete(p) ==
    /\ cpc[p] = "cs"
    /\ frame[p].fn = "Delete"
    /\ IF frame[p].key \in items
       THEN /\ order' = RemoveAt(order, IndexOfKey(order, frame[p].key))
            /\ items' = items \ {frame[p].key}
            /\ chist' = Forget(chist, {frame[p].key})
       ELSE UNCHANGED <<order, items, chist>>
    /\ cpc' = [cpc EXCEPT ![p] = "unlock"]
    /\ UNCHANGED <<capacity, hits, misses, cmu, frame, requests>>
    /\ UNCHANGED notCache

(* A Clear that also resets the counters. *)
LRUClearStats(p) ==
    /\ cpc[p] = "cs"
    /\ frame[p].fn = "Clear"
    /\ items' = {}
    /\ order' = <<>>
    /\ hits' = 0
    /\ misses' = 0
    /\ chist' = Forget(chist, items)
    /\ cpc' = [cpc EXCEPT ![p] = "unlock"]
    /\ UNCHANGED <<capacity, cmu, frame, requests>>
    /\ UNCHANGED notCache

(* LRU.Clear: a new map and an emptied list; the counters stay. *)
LRUClear(p) ==
    /\ cpc[p] = "cs"
    /\ frame[p].fn = "Clear"
    /\ items' = {}
    /\ order' = <<>>
    /\ chist' = Forget(chist, items)
    /\ cpc' = [cpc EXCEPT ![p] = "unlock"]
    /\ UNCHANGED <<capacity, hits, misses, cmu, frame, requests>>
    /\ UNCHANGED notCache

(* History: a returned Get is counted as one that found its key or not. *)
Returned(h, f) ==
    IF f.fn # "Get" THEN h
    ELSE IF f.ok THEN [h EXCEPT !.found = @ + 1]
         ELSE [h EXCEPT !.notFound = @ + 1]

(* The deferred c.mu.Unlock() and the return of a call on the cache. *)
CacheUnlock(p) ==
    /\ cpc[p] = "unlock"
    /\ ~frame[p].embed
    /\ cmu' = 0
    /\ cpc' = [cpc EXCEPT ![p] = "idle"]
    /\ frame' = [frame EXCEPT ![p] = CBlank]
    /\ chist' = Returned(chist, frame[p])
    /\ UNCHANGED <<capacity, items, order, hits, misses, requests>>
    /\ UNCHANGED notCache

(* A caller, between its calls, writes into a slice it got from Get or     *)
(* from Embed: when that slice is the one an entry stores, the entry's     *)
(* value changes.                                                          *)
Mutate(W) ==
    /\ \A p \in W.procs : cpc[p] = "idle"
    /\ \E i \in 1..Len(order), v \in W.vectors :
         /\ order[i].shared
         /\ v # order[i].value
         /\ order' = [order EXCEPT ![i].value = v]
    /\ UNCHANGED <<capacity, items, hits, misses, cmu, cpc, frame, requests, chist>>
    /\ UNCHANGED notCache

NextCache ==
    \/ \E p \in CacheLoad.procs :
         \/ CallGet(p, CacheLoad)
         \/ CallPut(p, CacheLoad)
         \/ CallDelete(p, CacheLoad)
         \/ CallClear(p)
         \/ CacheLock(p)
         \/ LRUGet(p)
         \/ LRUPut(p)
         \/ LRUDelete(p)
         \/ LRUClear(p)
         \/ CacheUnlock(p)
    \/ Mutate(CacheLoad)

InitCache == InitStore /\ NewLRU(CacheLoad.caps)

SpecCache == InitCache /\ [][NextCache]_vars

NextCacheConc ==
    \E p \in CacheConcLoad.procs :
        \/ CallGet(p, CacheConcLoad)
        \/ CallPut(p, CacheConcLoad)
        \/ CallDelete(p, CacheConcLoad)
        \/ CallClear(p)
        \/ CacheLock(p)
        \/ LRUGet(p)
        \/ LRUPut(p)
        \/ LRUDelete(p)
        \/ LRUClear(p)
        \/ CacheUnlock(p)

InitCacheConc == InitStore /\ NewLRU(CacheConcLoad.caps)

SpecCacheConc == InitCacheConc /\ [][NextCacheConc]_vars

-----------------------------------------------------------------------------
(* internal/embeddings/ollama.go: OllamaClient.Embed over the cache. *)

(* Embed(ctx, text): first c.cache.Get(text).  frame.first is history: the *)
(* result of the first Embed of the text that succeeded, when the text has *)
(* been in the cache ever since.  chist.before is history too: the request *)
(* counter and the keys of the cache at the call, and whether the last     *)
(* Embed of the text that reached the remote service failed.               *)
CallEmbed(p, W) ==
    /\ cpc[p] = "idle"
    /\ chist.gets < MaxGets
    /\ \E t \in W.texts :
         /\ frame' = [frame EXCEPT ![p] =
                         [CBlank EXCEPT !.fn = "Get", !.embed = TRUE,
                                        !.text = t, !.key = hashContent(t),
                                        !.first = chist.first[t]]]
         /\ chist' = [chist EXCEPT
                         !.gets = @ + 1,
                         !.before = [requests |-> requests,
                                     keys |-> KeysOf(order),
                                     failed |-> t \in chist.failed]]
    /\ cpc' = [cpc EXCEPT ![p] = "lock"]
    /\ UNCHANGED CacheFrame
    /\ UNCHANGED notCache

(* The cache's Get has returned: on a hit Embed returns the slice it got,  *)
(* on a miss it goes on to the request.                                    *)
EmbedAfterGet(p) ==
    /\ cpc[p] = "unlock"
    /\ frame[p].embed
    /\ frame[p].fn = "Get"
    /\ cmu' = 0
    /\ chist' = Returned(chist, frame[p])
    /\ IF frame[p].ok
       THEN /\ frame' = [frame EXCEPT ![p].result = frame[p].value]
            /\ cpc' = [cpc EXCEPT ![p] = "ret"]
       ELSE /\ UNCHANGED frame
            /\ cpc' = [cpc EXCEPT ![p] = "http"]
    /\ UNCHANGED <<capacity, items, order, hits, misses, requests>>
    /\ UNCHANGED notCache

(* What c.httpClient.Do and the answer can be: the transport fails, the    *)
(* status is not 200, the body has no "embeddings" key, or the body holds  *)
(* the embedding.                                                          *)
Answers == {"transport", "status", "nokey", "ok"}

(* The error Embed returns for an answer; "" is nil. *)
EmbedError(answer) ==
    CASE answer = "transport" -> "failed to call Ollama"
      [] answer = "status" -> "Ollama returned status"
      [] answer = "nokey" -> "failed to parse response"
      [] OTHER -> ""

(* An Embed that counts the request as soon as the answer has come. *)
CountRequestEarly(n, answer) == IF answer = "transport" THEN n ELSE n + 1

(* c.requests.Add(1) stands after every error return. *)
CountRequest(n, answer) == IF answer = "ok" THEN n + 1 ELSE n

(* The POST to /api/embed: the transport fails, the status is not 200 or   *)
(* the answer holds no embedding, and Embed returns the error; or the      *)
(* answer is parsed, the request counted and the embedding handed to       *)
(* c.cache.Put, which stores a copy.  chist.failed is history: the texts   *)
(* whose last request failed.                                              *)
EmbedRequest(p) ==
    /\ cpc[p] = "http"
    /\ \E answer \in Answers :
         /\ requests' = CountRequest(requests, answer)
         /\ IF answer = "ok"
            THEN /\ frame' = [frame EXCEPT
                                 ![p].fn = "Put", ![p].sent = TRUE,
                                 ![p].result = RemoteEmbedding(frame[p].text),
                                 ![p].value =
                                     CopyOf(RemoteEmbedding(frame[p].text))]
                 /\ cpc' = [cpc EXCEPT ![p] = "lock"]
                 /\ chist' = [chist EXCEPT !.failed = @ \ {frame[p].text}]
            ELSE /\ frame' = [frame EXCEPT ![p].sent = TRUE,
                                           ![p].err = EmbedError(answer)]
                 /\ cpc' = [cpc EXCEPT ![p] = "ret"]
                 /\ chist' = [chist EXCEPT !.failed = @ \cup {frame[p].text}]
    /\ UNCHANGED <<capacity, items, order, hits, misses, cmu>>
    /\ UNCHANGED notCache

(* The cache's Put has returned: Embed returns the embedding it parsed. *)
EmbedAfterPut(p) ==
    /\ cpc[p] = "unlock"
    /\ frame[p].embed
    /\ frame[p].fn = "Put"
    /\ cmu' = 0
    /\ cpc' = [cpc EXCEPT ![p] = "ret"]
    /\ UNCHANGED <<capacity, items, order, hits, misses, frame, requests, chist>>
    /\ UNCHANGED notCache

(* Embed returns to its caller. *)
EmbedReturn(p) ==
    /\ cpc[p] = "ret"
    /\ cpc' = [cpc EXCEPT ![p] = "idle"]
    /\ frame' = [frame EXCEPT ![p] = CBlank]
    /\ UNCHANGED <<capacity, items, order, hits, misses, cmu, requests, chist>>
    /\ UNCHANGED notCache

NextEmbed ==
    \/ \E p \in EmbedLoad.procs :
         \/ CallEmbed(p, EmbedLoad)
         \/ CacheLock(p)
         \/ LRUGet(p)
         \/ EmbedAfterGet(p)
         \/ EmbedRequest(p)
         \/ LRUPut(p)
         \/ EmbedAfterPut(p)
         \/ EmbedReturn(p)
    \/ Mutate(EmbedLoad)

InitEmbed == InitStore /\ NewLRU(EmbedLoad.caps)

SpecEmbed == InitEmbed /\ [][NextEmbed]_vars

-----------------------------------------------------------------------------
(* internal/embeddings/ollama.go: OllamaClient.EmbedBatch, a loop of Embed *)
(* calls.  ebatch.got is history: for every Embed call the loop made, its  *)
(* text, whether it succeeded and what it returned.                        *)

BatchLoad == [procs |-> {1}, texts |-> {"t1", "t2"}, caps |-> 1..MaxCap]

(* EmbedBatch(ctx, texts): embeddings := make([][]float32, len(texts)) *)
BatchCall(p, W) ==
    /\ ebatch.pc = "idle"
    /\ cpc[p] = "idle"
    /\ \E texts \in SeqsUpTo(W.texts, MaxGets) :
         /\ chist.gets + Len(texts) <= MaxGets
         /\ ebatch' = [NoBatch EXCEPT
                          !.pc = "loop", !.texts = texts,
                          !.embeddings = [k \in 1..Len(texts) |-> <<>>]]
    /\ UNCHANGED cacheVars
    /\ UNCHANGED notBatch

(* for i, text := range texts: c.Embed(ctx, text) is called. *)
BatchEmbed(p) ==
    /\ ebatch.pc = "loop"
    /\ ebatch.i < Len(ebatch.texts)
    /\ CallEmbed(p, [texts |-> {ebatch.texts[ebatch.i + 1]}])

(* An EmbedBatch that leaves the slot of a failed text empty and goes on. *)
BatchTakeSkipsFailure(p) ==
    /\ ebatch.pc = "loop"
    /\ cpc[p] = "ret"
    /\ ebatch' = [ebatch EXCEPT
                     !.embeddings[ebatch.i + 1] = frame[p].result,
                     !.i = @ + 1,
                     !.got = Append(@, [text |-> frame[p].text,
                                        ok |-> frame[p].err = "",
                                        value |-> frame[p].result])]
    /\ cpc' = [cpc EXCEPT ![p] = "idle"]
    /\ frame' = [frame EXCEPT ![p] = CBlank]
    /\ UNCHANGED <<capacity, items, order, hits, misses, cmu, requests, chist>>
    /\ UNCHANGED notBatch

(* Embed has returned: on an error EmbedBatch returns nil and the error    *)
(* "failed to embed text i"; else embeddings[i] = emb and the loop goes on. *)
BatchTake(p) ==
    /\ ebatch.pc = "loop"
    /\ cpc[p] = "ret"
    /\ LET got == Append(ebatch.got, [text |-> frame[p].text,
                                      ok |-> frame[p].err = "",
                                      value |-> frame[p].result])
       IN  ebatch' = IF frame[p].err # ""
                     THEN [ebatch EXCEPT !.pc = "ret", !.embeddings = <<>>,
                                         !.errIndex = ebatch.i, !.got = got]
                     ELSE [ebatch EXCEPT
                             !.embeddings[ebatch.i + 1] = frame[p].result,
                             !.i = @ + 1, !.got = got]
    /\ cpc' = [cpc EXCEPT ![p] = "idle"]
    /\ frame' = [frame EXCEPT ![p] = CBlank]
    /\ UNCHANGED <<capacity, items, order, hits, misses, cmu, requests, chist>>
    /\ UNCHANGED notBatch

(* The loop is over: return embeddings, nil. *)
BatchDone(p) ==
    /\ ebatch.pc = "loop"
    /\ cpc[p] = "idle"
    /\ ebatch.i = Len(ebatch.texts)
    /\ ebatch' = [ebatch EXCEPT !.pc = "ret"]
    /\ UNCHANGED cacheVars
    /\ UNCHANGED notBatch

(* EmbedBatch returns to its caller. *)
BatchReturn(p) ==
    /\ ebatch.pc = "ret"
    /\ ebatch' = NoBatch
    /\ UNCHANGED cacheVars
    /\ UNCHANGED notBatch

NextBatch ==
    \E p \in BatchLoad.procs :
        \/ BatchCall(p, BatchLoad)
        \/ BatchEmbed(p)
        \/ CacheLock(p)
        \/ LRUGet(p)
        \/ EmbedAfterGet(p)
        \/ EmbedRequest(p)
        \/ LRUPut(p)
        \/ EmbedAfterPut(p)
        \/ BatchTake(p)
        \/ BatchDone(p)
        \/ BatchReturn(p)

InitBatch == InitStore /\ NewLRU(BatchLoad.caps)

SpecBatch == InitBatch /\ [][NextBatch]_vars

-----------------------------------------------------------------------------
(* internal/embeddings/ollama.go (package chunking): CodeChunker.chunkGo.  *)
(* A file is the sequence of the lines bufio.Scanner reads from it, a line *)
(* a sequence of one-character strings.                                    *)

IsSpace(c) == c \in {" ", "\n", "\t"}

RECURSIVE TrimLeft(_)
TrimLeft(s) ==
    IF Len(s) > 0 /\ IsSpace(s[1]) THEN TrimLeft(Tail(s)) ELSE s

(* strings.TrimSpace *)
TrimSpace(s) == Reverse(TrimLeft(Reverse(TrimLeft(s))))

(* strings.Count(s, c) for a one-character c, and strings.Contains *)
CountOf(s, c) == Cardinality({i \in 1..Len(s) : s[i] = c})

Contains(s, c) == CountOf(s, c) > 0

(* strings.Index(s, c) for a one-character c, from 1; 0 when absent. *)
IndexOf(s, c) ==
    IF Contains(s, c) THEN (CHOOSE i \in 1..Len(s) : s[i] = c /\ \A j \in 1..(i - 1) : s[j] # c) ELSE 0

RECURSIVE Fields(_)
(* strings.Fields: the maximal runs without white space. *)
Fields(s) ==
    LET t == TrimLeft(s)
        stop == IF \E i \in 1..Len(t) : IsSpace(t[i])
                THEN (CHOOSE i \in 1..Len(t) : IsSpace(t[i]) /\ \A j \in 1..(i - 1) : ~IsSpace(t[j])) ELSE Len(t) + 1
    IN  IF Len(t) = 0 THEN <<>>
        ELSE <<SubSeq(t, 1, stop - 1)>> \o Fields(SubSeq(t, stop, Len(t)))

FuncKeyword == <<"f", "u", "n", "c", " ">>

(* types.Chunk *)
Chunk(content, startLine, endLine, type, name) ==
    [Content |-> content, StartLine |-> startLine, EndLine |-> endLine,
     Type |-> type, Name |-> name]

(* chunkGo before the first line. *)
GoStart == [chunks |-> <<>>, currentChunk |-> <<>>, currentName |-> <<>>,
            startLine |-> 1, lineNum |-> 0, braceDepth |-> 0, inFunc |-> FALSE]

(* chunkGo: "Detect function start" for one line. *)
GoFuncStart(st, line) ==
    IF ~HasPrefix(TrimSpace(line), FuncKeyword) THEN st
    ELSE LET parts == Fields(TrimSpace(line))
             name == parts[2]
             idx == IndexOf(name, "(")
         IN  [st EXCEPT
                !.chunks = IF Len(st.currentChunk) > 0
                           THEN Append(@, Chunk(TrimSpace(st.currentChunk),
                                                st.startLine, st.lineNum - 1,
                                                "function", st.currentName))
                           ELSE @,
                !.currentChunk = <<>>,
                !.startLine = st.lineNum,
                !.inFunc = TRUE,
                !.currentName = IF Len(parts) >= 2
                                THEN IF idx # 0 THEN SubSeq(name, 1, idx - 1)
                                     ELSE name
                                ELSE @]

(* chunkGo: "End of function" for one line. *)
GoFuncEnd(st, line) ==
    IF st.inFunc /\ st.braceDepth = 0 /\ Contains(line, "}")
    THEN [st EXCEPT
            !.chunks = Append(@, Chunk(TrimSpace(st.currentChunk), st.startLine,
                                       st.lineNum, "function", st.currentName)),
            !.currentChunk = <<>>,
            !.currentName = <<>>,
            !.startLine = st.lineNum + 1,
            !.inFunc = FALSE]
    ELSE st

(* chunkGo: "Check max size" for one line. *)
GoMaxSize(st, maxSize) ==
    IF Len(st.currentChunk) > maxSize /\ ~st.inFunc
    THEN [st EXCEPT
            !.chunks = Append(@, Chunk(TrimSpace(st.currentChunk), st.startLine,
                                       st.lineNum, "text", <<>>)),
            !.currentChunk = <<>>,
            !.startLine = st.lineNum + 1]
    ELSE st

(* chunkGo: one turn of the scanner loop. *)
GoLine(st, line, maxSize) ==
    LET s1 == GoFuncStart([st EXCEPT !.lineNum = @ + 1], line)
        s2 == [s1 EXCEPT
                 !.currentChunk = @ \o line \o <<"\n">>,
                 !.braceDepth = @ + CountOf(line, "{") - CountOf(line, "}")]
    IN  GoMaxSize(GoFuncEnd(s2, line), maxSize)

RECURSIVE GoScan(_, _, _)
GoScan(st, lines, maxSize) ==
    IF Len(lines) = 0 THEN st
    ELSE GoScan(GoLine(st, Head(lines), maxSize), Tail(lines), maxSize)

(* CodeChunker.chunkGo: the chunks of a Go file. *)
chunkGo(lines, maxSize) ==
    LET st == GoScan(GoStart, lines, maxSize)
    IN  IF Len(st.currentChunk) > 0
        THEN Append(st.chunks, Chunk(TrimSpace(st.currentChunk), st.startLine,
                                     st.lineNum, "text", st.currentName))
        ELSE st.chunks

-----------------------------------------------------------------------------
(* Package chunking: the content of a file, how strings.Split and          *)
(* bufio.Scanner cut it into lines, LineChunker.Chunk and chunkPython.     *)
(* A content is a sequence of one-character strings, "\n" among them;      *)
(* LongRun stands for a run of MaxScanTokenSize bytes that are neither     *)
(* white space nor braces.                                                 *)

LongRun == "X64K"

ByteLen(s) ==
    Len(s) + (MaxScanTokenSize - 1) * CountOf(s, LongRun)

RECURSIVE JoinLines(_)
(* Every line followed by "\n". *)
JoinLines(lines) ==
    IF Len(lines) = 0 THEN <<>>
    ELSE Head(lines) \o <<"\n">> \o JoinLines(Tail(lines))

(* The content of a file of these lines, its last line terminated by "\n"  *)
(* or not.                                                                 *)
FileContent(lines, terminated) ==
    LET c == JoinLines(lines)
    IN  IF terminated \/ Len(c) = 0 THEN c ELSE SubSeq(c, 1, Len(c) - 1)

RECURSIVE SplitLF(_)
(* strings.Split(content, "\n") *)
SplitLF(s) ==
    IF ~Contains(s, "\n") THEN <<s>>
    ELSE LET i == IndexOf(s, "\n")
         IN  <<SubSeq(s, 1, i - 1)>> \o SplitLF(SubSeq(s, i + 1, Len(s)))

(* The lines of a content: what "\n" terminates, and the unterminated rest *)
(* when it is not empty.                                                   *)
LinesOf(content) ==
    LET pieces == SplitLF(content)
    IN  IF Len(pieces[Len(pieces)]) = 0
        THEN SubSeq(pieces, 1, Len(pieces) - 1) ELSE pieces

(* bufio.Scanner with the default split function and buffer: Scan yields   *)
(* the lines one by one and returns false at the end of the input or at a  *)
(* line that does not fit the buffer (ErrTooLong, which chunkGo and        *)
(* chunkPython never look at).                                             *)
ScanLines(content) ==
    LET all == LinesOf(content)
        long == {i \in 1..Len(all) : ByteLen(all[i]) >= MaxScanTokenSize}
        stop == IF long = {} THEN Len(all) + 1
                ELSE CHOOSE i \in long : \A j \in long : i <= j
    IN  SubSeq(all, 1, stop - 1)

(* findOverlapStart *)
findOverlapStart(content, overlap) ==
    IF Len(content) <= overlap THEN content
    ELSE LET lastPart == SubSeq(content, Len(content) - overlap + 1, Len(content))
         IN  IF Contains(lastPart, "\n")
             THEN SubSeq(lastPart, IndexOf(lastPart, "\n") + 1, Len(lastPart))
             ELSE lastPart

(* LineChunker.Chunk before the first line. *)
LineStart == [chunks |-> <<>>, currentChunk |-> <<>>, startLine |-> 1,
              currentLine |-> 1]

(* LineChunker.Chunk: one turn of the loop over the lines. *)
LineStep(st, line, maxSize, overlap) ==
    LET full == /\ Len(st.currentChunk) + Len(line) + 1 > maxSize
                /\ Len(st.currentChunk) > 0
        saved == Chunk(TrimSpace(st.currentChunk), st.startLine,
                       st.currentLine - 1, "text", <<>>)
        overlapStart == findOverlapStart(saved.Content, overlap)
        s1 == IF full
              THEN [st EXCEPT
                      !.chunks = Append(@, saved),
                      !.currentChunk = IF Len(overlapStart) > 0
                                       THEN overlapStart \o <<"\n">> ELSE <<>>,
                      !.startLine = st.currentLine]
              ELSE st
    IN  [s1 EXCEPT !.currentChunk = @ \o line \o <<"\n">>,
                   !.currentLine = @ + 1]

RECURSIVE LineLoop(_, _, _, _)
LineLoop(st, lines, maxSize, overlap) ==
    IF Len(lines) = 0 THEN st
    ELSE LineLoop(LineStep(st, Head(lines), maxSize, overlap), Tail(lines),
                  maxSize, overlap)

(* LineChunker.Chunk(content, opts) of the chunker NewLineChunker built    *)
(* with ChunkMaxSize and ChunkOverlap.                                     *)
LineChunk(content, optMaxSize, optOverlap) ==
    LET maxSize == IF optMaxSize <= 0 THEN ChunkMaxSize ELSE optMaxSize
        overlap == IF optOverlap < 0 THEN ChunkOverlap ELSE optOverlap
        st == LineLoop(LineStart, SplitLF(content), maxSize, overlap)
    IN  IF Len(content) = 0 THEN <<>>
        ELSE IF Len(st.currentChunk) > 0
             THEN Append(st.chunks, Chunk(TrimSpace(st.currentChunk),
                                          st.startLine, st.currentLine - 1,
                                          "text", <<>>))
             ELSE st.chunks

DefKeyword == <<"d", "e", "f", " ">>

ClassKeyword == <<"c", "l", "a", "s", "s", " ">>

(* name[:idx] when c is in name. *)
CutAt(name, c) ==
    IF IndexOf(name, c) # 0 THEN SubSeq(name, 1, IndexOf(name, c) - 1) ELSE name

(* chunkPython before the first line. *)
PyStart == [chunks |-> <<>>, currentChunk |-> <<>>, currentName |-> <<>>,
            currentType |-> "", startLine |-> 1, lineNum |-> 0,
            baseIndent |-> -1]

(* chunkPython: "Detect function/class start" for one line. *)
PyDefLine(st, line) ==
    LET trimmed == TrimSpace(line)
        indent == Len(line) - Len(TrimLeft(line))
        isDef == HasPrefix(trimmed, DefKeyword)
        parts == Fields(trimmed)
        save == /\ Len(st.currentChunk) > 0
                /\ (st.baseIndent = -1 \/ indent <= st.baseIndent)
    IN  IF ~(isDef \/ HasPrefix(trimmed, ClassKeyword)) THEN st
        ELSE [st EXCEPT
                !.chunks = IF save
                           THEN Append(@, Chunk(TrimSpace(st.currentChunk),
                                                st.startLine, st.lineNum - 1,
                                                st.currentType, st.currentName))
                           ELSE @,
                !.currentChunk = IF save THEN <<>> ELSE @,
                !.startLine = IF save THEN st.lineNum ELSE @,
                !.baseIndent = indent,
                !.currentType = IF isDef THEN "function" ELSE "class",
                !.currentName = IF Len(parts) < 2 THEN @
                                ELSE IF isDef THEN CutAt(parts[2], "(")
                                ELSE CutAt(CutAt(parts[2], "("), ":")]

(* chunkPython: "Check max size" for one line. *)
PyMaxSize(st, maxSize) ==
    IF Len(st.currentChunk) > maxSize
    THEN [st EXCEPT
            !.chunks = Append(@, Chunk(TrimSpace(st.currentChunk), st.startLine,
                                       st.lineNum, st.currentType,
                                       st.currentName)),
            !.currentChunk = <<>>,
            !.startLine = st.lineNum + 1,
            !.currentName = <<>>,
            !.currentType = "text",
            !.baseIndent = -1]
    ELSE st

(* chunkPython: one turn of the scanner loop. *)
PyLine(st, line, maxSize) ==
    LET s1 == PyDefLine([st EXCEPT !.lineNum = @ + 1], line)
    IN  PyMaxSize([s1 EXCEPT !.currentChunk = @ \o line \o <<"\n">>], maxSize)

RECURSIVE PyScan(_, _, _)
PyScan(st, lines, maxSize) ==
    IF Len(lines) = 0 THEN st
    ELSE PyScan(PyLine(st, Head(lines), maxSize), Tail(lines), maxSize)

(* CodeChunker.chunkPython: the chunks of the lines the scanner yields. *)
chunkPython(lines, maxSize) ==
    LET st == PyScan(PyStart, lines, maxSize)
    IN  IF Len(st.currentChunk) > 0
        THEN Append(st.chunks, Chunk(TrimSpace(st.currentChunk), st.startLine,
                                     st.lineNum, st.currentType, st.currentName))
        ELSE st.chunks

(* The lines of the inputs: plain text, Go source, Python source. *)
TextSource == { <<>>, <<" ">>, <<"x">>, <<"y", "y">> }

GoSource == { <<>>,
              <<"x">>,
              <<"f", "u", "n", "c", " ", "f", "(", ")", " ", "{", "}">>,
              <<"f", "u", "n", "c", " ", "g", "(", ")", " ", "{">>,
              <<"}">>,
              <<"f", "u", "n", "c", " ", "(", "s", ")", " ", "m", "(", ")",
                " ", "{", "}">>,
              <<LongRun>> }

PySource == { <<>>,
              <<"x">>,
              <<"d", "e", "f", " ", "f", "(", ")", ":">>,
              <<" ", "d", "e", "f", " ", "g", "(", ")", ":">>,
              <<"c", "l", "a", "s", "s", " ", "C", ":">>,
              <<" ", "x">>,
              <<LongRun>> }

SourceOf(chunker) ==
    CASE chunker = "line"   -> TextSource
      [] chunker = "go"     -> GoSource
      [] chunker = "python" -> PySource

ChunkLoad == [chunkers |-> {"line", "go", "python"},
              maxSizes |-> {0, 3, ChunkMaxSize},
              overlaps |-> {-1, 0, 2}]

(* Chunk(ctx, content, opts) is called on one of the three chunkers. *)
CallChunk(W) ==
    /\ chk.pc = "idle"
    /\ \E c \in W.chunkers, m \in W.maxSizes, o \in W.overlaps,
          terminated \in BOOLEAN :
         \E lines \in SeqsUpTo(SourceOf(c), MaxLines) :
            /\ c # "line" => o = 0
            /\ chk' = [NoChunking EXCEPT
                          !.pc = "call", !.chunker = c,
                          !.content = FileContent(lines, terminated),
                          !.maxSize = m, !.overlap = o]
    /\ UNCHANGED <<storeVars, cacheVars, svc, ebatch, extVars>>

(* LineChunker.Chunk *)
ChunkLines ==
    /\ chk.pc = "call"
    /\ chk.chunker = "line"
    /\ chk' = [chk EXCEPT
                 !.pc = "ret",
                 !.chunks = LineChunk(chk.content, chk.maxSize, chk.overlap)]
    /\ UNCHANGED <<storeVars, cacheVars, svc, ebatch, extVars>>

(* CodeChunker.Chunk, Semantic, language go (javascript, typescript) *)
ChunkGoSource ==
    /\ chk.pc = "call"
    /\ chk.chunker = "go"
    /\ chk' = [chk EXCEPT
                 !.pc = "ret",
                 !.chunks = chunkGo(ScanLines(chk.content), chk.maxSize)]
    /\ UNCHANGED <<storeVars, cacheVars, svc, ebatch, extVars>>

(* CodeChunker.Chunk, Semantic, language python *)
ChunkPythonSource ==
    /\ chk.pc = "call"
    /\ chk.chunker = "python"
    /\ chk' = [chk EXCEPT
                 !.pc = "ret",
                 !.chunks = chunkPython(ScanLines(chk.content), chk.maxSize)]
    /\ UNCHANGED <<storeVars, cacheVars, svc, ebatch, extVars>>

(* Chunk returns to its caller. *)
ChunkReturn ==
    /\ chk.pc = "ret"
    /\ chk' = NoChunking
    /\ UNCHANGED <<storeVars, cacheVars, svc, ebatch, extVars>>

NextChunk ==
    \/ CallChunk(ChunkLoad)
    \/ ChunkLines
    \/ ChunkGoSource
    \/ ChunkPythonSource
    \/ ChunkReturn

SpecChunk == Init /\ [][NextChunk]_vars

-----------------------------------------------------------------------------
(* internal/memory: NewService and the service's Add and Index, over the   *)
(* embedder, the chunker and the store.  svc is the service and its call   *)
(* in progress, of the one caller.                                         *)

(* The lines of the Go files indexed. *)
GoLines == { <<>>,
             <<"f", "u", "n", "c", " ", "f", "(", ")", " ", "{", "}">>,
             <<"f", "u", "n", "c", " ", "g", "(", ")", " ", "{">>,
             <<"}">> }

GoFiles == SeqsUpTo(GoLines, MaxLines)

(* The contents given to Add. *)
Contents == {<<>>, <<" ">>, <<"x">>}

GoPath == <<"s", "r">>

(* An entry of the file tree, as filepath.Walk hands it to its function:   *)
(* stat is false when Walk could not stat it, readable is false when       *)
(* os.ReadFile fails on it.                                                *)
Entry(path, name, ext, isDir, depth, lines) ==
    [path |-> path, name |-> name, ext |-> ext, isDir |-> isDir,
     depth |-> depth, stat |-> TRUE, readable |-> TRUE, lines |-> lines]

GoFile(lines) == Entry(GoPath, "s.go", ".go", FALSE, 0, lines)

FuncF == <<"f", "u", "n", "c", " ", "f", "(", ")", " ", "{", "}">>

(* The entries of the directories indexed: at depth 1 two Go files (one    *)
(* chunk, three chunks), an unreadable Go file, an empty Go file, a file   *)
(* that is not indexable, a file Walk cannot stat, the directories sub     *)
(* and vendor; at depth 2 a Go file.                                       *)
Entries ==
    { Entry(<<"a">>, "a.go", ".go", FALSE, 1, <<FuncF>>),
      Entry(<<"b">>, "b.go", ".go", FALSE, 1, <<FuncF, <<>>, FuncF>>),
      [Entry(<<"c">>, "c.go", ".go", FALSE, 1, <<FuncF>>) EXCEPT !.readable = FALSE],
      Entry(<<"d">>, "d.go", ".go", FALSE, 1, <<>>),
      Entry(<<"e">>, "e.bin", ".bin", FALSE, 1, <<FuncF>>),
      [Entry(<<"f">>, "f.go", ".go", FALSE, 1, <<FuncF>>) EXCEPT !.stat = FALSE],
      Entry(<<"s">>, "sub", "", TRUE, 1, <<>>),
      Entry(<<"v">>, "vendor", "", TRUE, 1, <<>>),
      Entry(<<"i">>, "i.go", ".go", FALSE, 2, <<FuncF>>) }

RootDir == Entry(<<"r">>, "root", "", TRUE, 0, <<>>)

(* The walks of a directory: the root, then up to MaxFiles different       *)
(* entries, an entry of depth 2 only below a directory.                    *)
Walks ==
    {<<RootDir>> \o w : w \in
        {w \in SeqsUpTo(Entries, MaxFiles) :
            \A k \in 1..Len(w) :
                /\ \A j \in 1..(k - 1) : w[j] # w[k]
                /\ w[k].depth = 2 =>
                      k > 1 /\ (w[k - 1].depth = 2 \/ w[k - 1].isDir)}}

(* s.config.IndexIgnore as cmd/moneta sets it, for the names of Entries. *)
IndexIgnore == {".git", "node_modules", "vendor"}

(* isIndexableFile, for the extensions of Entries. *)
isIndexableFile(ext) == ext \in {".go", ".py", ".js", ".ts"}

(* detectLanguage *)
detectLanguage(ext) ==
    CASE ext = ".go" -> "go"
      [] ext = ".py" -> "python"
      [] ext = ".js" -> "javascript"
      [] OTHER       -> "text"

(* CodeChunker.Chunk with Semantic set: the splitter of the language. *)
CodeChunk(content, language, maxSize, overlap) ==
    CASE language \in {"go", "javascript", "typescript"} ->
            chunkGo(ScanLines(content), maxSize)
      [] language = "python" -> chunkPython(ScanLines(content), maxSize)
      [] OTHER -> LineChunk(content, maxSize, overlap)

(* CodeChunker.ChunkFile of a readable file. *)
ChunkFile(e) ==
    CodeChunk(FileContent(e.lines, TRUE), detectLanguage(e.ext),
              ChunkMaxSize, ChunkOverlap)

(* The embedder's answer for a text, when it answers. *)
EmbeddingOf(text) == IF Len(text) = 0 THEN <<0, 1>> ELSE <<1, 0>>

(* The memory Add builds (its id is the next fresh UUID). *)
AddedMemory(req, project, memType, embedding, uuid, ts) ==
    [ id |-> uuid,
      content |-> req.Content,
      project |-> project,
      type |-> memType,
      file_path |-> <<>>,
      language |-> "",
      metadata |-> NilMap,
      embedding |-> embedding,
      created_at |-> ts ]

(* The memory indexFile builds from a chunk. *)
ChunkMemory(chunk, path, project, embedding, uuid, ts) ==
    [ id |-> uuid,
      content |-> chunk.Content,
      project |-> project,
      type |-> "context",
      file_path |-> path,
      language |-> chunk.Type,
      metadata |-> MapOf({ << <<"start_line">>, <<ToString(chunk.StartLine)>> >>,
                           << <<"end_line">>, <<ToString(chunk.EndLine)>> >>,
                           << <<"chunk_name">>, chunk.Name >> }),
      embedding |-> embedding,
      created_at |-> ts ]

SvcFrame == <<rows, writer, readers, pc, op, tx, ret, now, hist>>

(* The requests and configurations of the caller. *)
AddRequests ==
    {[NoRequest EXCEPT !.Content = c, !.Project = pr, !.Type = t] :
        c \in Contents, pr \in {"", "A"}, t \in {"", "decision"}}

FileRequests ==
    {[NoRequest EXCEPT !.Path = "file", !.Entries = <<e>>] :
        e \in {GoFile(f) : f \in GoFiles}
              \cup {[GoFile(<<FuncF>>) EXCEPT !.readable = FALSE]}}
    \cup {NoRequest, [NoRequest EXCEPT !.Path = "missing"]}

DirRequests ==
    {[NoRequest EXCEPT !.Path = "dir", !.Project = "A", !.Entries = w] : w \in Walks}

Configs == {[EmbedBatchSize |-> 0, DefaultProject |-> ""],
            [EmbedBatchSize |-> 2, DefaultProject |-> ""]}

Requests == [configs |-> Configs, adds |-> AddRequests,
             indexes |-> FileRequests, calls |-> MaxCalls]

DirLoad == [configs |-> Configs, adds |-> {}, indexes |-> DirRequests,
            calls |-> 1]

(* NewService(st, emb, ch, cfg) *)
NewService(W) ==
    /\ ~svc.built
    /\ \E cfg \in W.configs :
         svc' = [svc EXCEPT
                   !.built = TRUE,
                   !.config = [EmbedBatchSize |->
                                   IF cfg.EmbedBatchSize <= 0
                                   THEN DefaultEmbedBatchSize
                                   ELSE cfg.EmbedBatchSize,
                               DefaultProject |->
                                   IF cfg.DefaultProject = "" THEN "default"
                                   ELSE cfg.DefaultProject]]
    /\ UNCHANGED SvcFrame
    /\ UNCHANGED notService

(* serviceImpl.Add(req): empty content is refused, else the content is to  *)
(* be embedded.                                                            *)
ServiceAdd(p, W) ==
    /\ svc.built
    /\ svc.pc = "idle"
    /\ svc.calls < W.calls
    /\ \E req \in W.adds :
         LET s == [svc EXCEPT !.fn = "Add", !.calls = @ + 1, !.req = req,
                              !.pre = rows]
         IN  svc' = IF Len(req.Content) = 0
                    THEN [s EXCEPT !.pc = "ret", !.err = "content is required"]
                    ELSE [s EXCEPT !.pc = "embed", !.texts = <<req.Content>>]
    /\ UNCHANGED SvcFrame
    /\ UNCHANGED notService

(* serviceImpl.Index(req): the path is refused when empty or when os.Stat  *)
(* fails; a directory is walked, a file is indexed.                        *)
ServiceIndex(p, W) ==
    /\ svc.built
    /\ svc.pc = "idle"
    /\ svc.calls < W.calls
    /\ \E req \in W.indexes :
         LET s == [svc EXCEPT !.fn = "Index", !.calls = @ + 1, !.req = req,
                              !.pre = rows]
         IN  svc' =
               CASE req.Path = "" ->
                      [s EXCEPT !.pc = "ret", !.err = "path is required"]
                 [] req.Path = "missing" ->
                      [s EXCEPT !.pc = "ret", !.err = "failed to access path"]
                 [] req.Path = "dir" ->
                      [s EXCEPT !.pc = "walk", !.dir = TRUE]
                 [] req.Path = "file" ->
                      [s EXCEPT !.pc = "file", !.file = req.Entries[1]]
    /\ UNCHANGED SvcFrame
    /\ UNCHANGED notService

(* filepath.SkipDir at entry i: the walk goes on after what is below it. *)
AfterSubtree(walk, i) ==
    LET later == {j \in (i + 1)..Len(walk) : walk[j].depth <= walk[i].depth}
    IN  IF later = {} THEN Len(walk)
        ELSE (CHOOSE j \in later : \A k \in later : j <= k) - 1

(* An indexDirectory whose walk ends at the first file that fails. *)
FileReturnsAborts(s, n, err) ==
    LET t == [s EXCEPT !.seen = Append(@, [path |-> s.file.path, n |-> n,
                                           err |-> err]),
                       !.texts = <<>>, !.chunks = <<>>, !.embeddings = <<>>,
                       !.memories = <<>>, !.file = NoEntry]
    IN  IF s.dir /\ err = ""
        THEN [t EXCEPT !.pc = "walk", !.at = @ + 1, !.count = @ + n]
        ELSE [t EXCEPT !.pc = "ret", !.count = IF s.dir THEN @ ELSE n,
                       !.err = err]

(* indexFile has returned (n, err): Index returns them for a file;         *)
(* indexDirectory adds n to its count, or logs the error, and goes on.     *)
FileReturns(s, n, err) ==
    LET t == [s EXCEPT !.seen = Append(@, [path |-> s.file.path, n |-> n,
                                           err |-> err]),
                       !.texts = <<>>, !.chunks = <<>>, !.embeddings = <<>>,
                       !.memories = <<>>, !.file = NoEntry]
    IN  IF s.dir
        THEN [t EXCEPT !.pc = "walk", !.at = @ + 1,
                       !.count = IF err = "" THEN @ + n ELSE @]
        ELSE [t EXCEPT !.pc = "ret", !.count = n, !.err = err]

(* indexDirectory: the function filepath.Walk calls for the next entry,    *)
(* and the return of indexDirectory after the last.                        *)
ServiceWalk(p) ==
    /\ svc.pc = "walk"
    /\ LET walk == svc.req.Entries
           e == walk[svc.at + 1]
       IN  svc' =
             IF svc.at = Len(walk) THEN [svc EXCEPT !.pc = "ret"]
             ELSE IF ~e.stat THEN [svc EXCEPT !.at = @ + 1]
             ELSE IF e.name \in IndexIgnore
                  THEN [svc EXCEPT !.at = IF e.isDir
                                          THEN AfterSubtree(walk, svc.at + 1)
                                          ELSE @ + 1]
             ELSE IF e.isDir \/ ~isIndexableFile(e.ext)
                  THEN [svc EXCEPT !.at = @ + 1]
             ELSE [svc EXCEPT !.pc = "file", !.file = e]
    /\ UNCHANGED SvcFrame
    /\ UNCHANGED notService

(* indexFile(path): s.chunker.ChunkFile; an error and no chunks return,    *)
(* else the chunks are to be embedded in batches.                          *)
ServiceChunkFile(p) ==
    /\ svc.pc = "file"
    /\ LET chunks == ChunkFile(svc.file)
       IN  svc' =
             IF ~svc.file.readable
             THEN FileReturns(svc, 0, "failed to chunk file")
             ELSE IF Len(chunks) = 0 THEN FileReturns(svc, 0, "")
             ELSE [svc EXCEPT !.pc = "embed", !.chunks = chunks,
                              !.texts = [i \in 1..Len(chunks) |->
                                            chunks[i].Content]]
    /\ UNCHANGED SvcFrame
    /\ UNCHANGED notService

(* indexFile: EmbedBatch has failed, return len(memories), err. *)
EmbedFailed(s) ==
    FileReturns(s, Len(s.memories), "failed to generate embeddings")

(* Embedder.Embed for the next text (EmbedBatch embeds one after the       *)
(* other): the embedder fails and the call returns the error, or it        *)
(* answers; with the last answer of a batch indexFile builds the memories  *)
(* of the batch.                                                           *)
ServiceEmbed(p) ==
    /\ svc.pc = "embed"
    /\ Len(svc.embeddings) < Len(svc.texts)
    /\ \E answered \in BOOLEAN :
         LET embeddings == Append(svc.embeddings,
                                  EmbeddingOf(svc.texts[Len(svc.embeddings) + 1]))
             i == Len(svc.memories)
             end == Min(i + svc.config.EmbedBatchSize, Len(svc.chunks))
             batch == [j \in 1..(end - i) |->
                         ChunkMemory(svc.chunks[i + j], svc.file.path,
                                     IF svc.req.Project = ""
                                     THEN svc.config.DefaultProject
                                     ELSE svc.req.Project,
                                     embeddings[i + j], svc.uuids + j, now)]
             s == [svc EXCEPT !.nEmbed = @ + 1, !.failed = @ \/ ~answered]
         IN  svc' =
               IF ~answered
               THEN IF svc.fn = "Add"
                    THEN [s EXCEPT !.pc = "ret",
                                   !.err = "failed to generate embedding"]
                    ELSE EmbedFailed(s)
               ELSE IF svc.fn = "Index" /\ Len(embeddings) = end
                    THEN [s EXCEPT !.embeddings = embeddings,
                                   !.memories = @ \o batch,
                                   !.uuids = @ + Len(batch)]
                    ELSE [s EXCEPT !.embeddings = embeddings]
    /\ UNCHANGED SvcFrame
    /\ UNCHANGED notService

(* All texts are embedded: Add builds its memory and calls store.Add,      *)
(* indexFile calls store.AddBatch with the memories built.                 *)
ServiceStore(p) ==
    /\ svc.pc = "embed"
    /\ Len(svc.embeddings) = Len(svc.texts)
    /\ pc[p] = "idle"
    /\ svc' = IF svc.fn = "Add"
              THEN [svc EXCEPT
                      !.pc = "store",
                      !.nStore = @ + 1,
                      !.uuids = @ + 1,
                      !.memories =
                         <<AddedMemory(svc.req,
                                       IF svc.req.Project = ""
                                       THEN svc.config.DefaultProject
                                       ELSE svc.req.Project,
                                       IF svc.req.Type = "" THEN "context"
                                       ELSE svc.req.Type,
                                       svc.embeddings[1], svc.uuids + 1, now)>>]
              ELSE [svc EXCEPT !.pc = "store", !.nStore = @ + 1]
    /\ op' = [op EXCEPT ![p] = IF svc.fn = "Add" THEN "Add" ELSE "AddBatch"]
    /\ pc' = [pc EXCEPT ![p] = "lock"]
    /\ UNCHANGED <<rows, writer, readers, tx, ret, now, hist>>
    /\ UNCHANGED notService

(* A failure of AddBatch that leaves in the table what the transaction had *)
(* written.                                                                *)
ExecFailsKeeps(p) ==
    /\ \/ pc[p] = "cs" /\ op[p] \in {"Add", "AddBatch"}
       \/ pc[p] = "tx"
    /\ rows' = TxCommit(rows, tx[p].pending)
    /\ tx' = [tx EXCEPT ![p].pending = <<>>, ![p].failed = TRUE]
    /\ Done(p, [err |-> TRUE, arg |-> <<>>, out |-> <<>>, pre |-> rows])
    /\ UNCHANGED <<writer, readers, op, now, hist>>
    /\ UNCHANGED notStore

(* ExecContext, BeginTx, PrepareContext or Commit returns an error (the    *)
(* context is cancelled, the disk is full): Add returns it with nothing    *)
(* written, AddBatch returns it and the deferred tx.Rollback() drops what  *)
(* the transaction has written.                                            *)
ExecFails(p) ==
    /\ \/ pc[p] = "cs" /\ op[p] \in {"Add", "AddBatch"}
       \/ pc[p] = "tx"
    /\ rows' = TxRollback(rows, tx[p].pending)
    /\ tx' = [tx EXCEPT ![p].pending = <<>>, ![p].failed = TRUE]
    /\ Done(p, [err |-> TRUE, arg |-> <<>>, out |-> <<>>, pre |-> rows])
    /\ UNCHANGED <<writer, readers, op, now, hist>>
    /\ UNCHANGED notStore

(* A service whose Add returns its memory also when the store failed. *)
StoredIgnoresError(s, failed) ==
    IF s.fn = "Add" THEN [s EXCEPT !.pc = "ret", !.result = s.memories]
    ELSE FileReturns(s, Len(s.memories), "")

(* What Add and indexFile do with the error of the store. *)
Stored(s, failed) ==
    IF s.fn = "Add"
    THEN IF failed THEN [s EXCEPT !.pc = "ret", !.err = "failed to store memory"]
         ELSE [s EXCEPT !.pc = "ret", !.result = s.memories]
    ELSE IF failed THEN FileReturns(s, 0, "failed to store memories")
         ELSE FileReturns(s, Len(s.memories), "")

(* store.Add or store.AddBatch returns to the service. *)
ServiceStored(p) ==
    /\ svc.pc = "store"
    /\ ReturnBody(p)
    /\ svc' = Stored([svc EXCEPT !.failed = @ \/ ret[p].err], ret[p].err)
    /\ UNCHANGED notService

(* The call of the service returns. *)
ServiceReturn(p) ==
    /\ svc.pc = "ret"
    /\ svc' = [NoCall EXCEPT !.calls = svc.calls, !.uuids = svc.uuids,
                             !.built = TRUE, !.config = svc.config]
    /\ UNCHANGED SvcFrame
    /\ UNCHANGED notService

(* What the service hands to the store. *)
ServiceLoad == [mems |-> Range(svc.memories), batches |-> {svc.memories}]

NextService ==
    \E p \in {1} :
        \/ NewService(Requests)
        \/ ServiceAdd(p, Requests)
        \/ ServiceIndex(p, Requests)
        \/ ServiceChunkFile(p)
        \/ ServiceEmbed(p)
        \/ ServiceStore(p)
        \/ Lock(p)
        \/ Add(p, ServiceLoad)
        \/ BeginTx(p, ServiceLoad)
        \/ ExecBatch(p)
        \/ CommitTx(p)
        \/ ExecFails(p)
        \/ ServiceStored(p)
        \/ ServiceReturn(p)

SpecService == Init /\ [][NextService]_vars

(* One file is indexed. *)
FileLoad == [Requests EXCEPT !.calls = 1]

NextFile ==
    \E p \in {1} :
        \/ NewService(FileLoad)
        \/ ServiceIndex(p, FileLoad)
        \/ ServiceChunkFile(p)
        \/ ServiceEmbed(p)
        \/ ServiceStore(p)
        \/ Lock(p)
        \/ BeginTx(p, ServiceLoad)
        \/ ExecBatch(p)
        \/ CommitTx(p)
        \/ ExecFails(p)
        \/ ServiceStored(p)
        \/ ServiceReturn(p)

SpecFile == Init /\ [][NextFile]_vars

(* Add alone. *)
NextAdd ==
    \E p \in {1} :
        \/ NewService(Requests)
        \/ ServiceAdd(p, Requests)
        \/ ServiceEmbed(p)
        \/ ServiceStore(p)
        \/ Lock(p)
        \/ Add(p, ServiceLoad)
        \/ ExecFails(p)
        \/ ServiceStored(p)
        \/ ServiceReturn(p)

SpecAdd == Init /\ [][NextAdd]_vars

(* A directory is indexed. *)
NextIndex ==
    \E p \in {1} :
        \/ NewService(DirLoad)
        \/ ServiceIndex(p, DirLoad)
        \/ ServiceWalk(p)
        \/ ServiceChunkFile(p)
        \/ ServiceEmbed(p)
        \/ ServiceStore(p)
        \/ Lock(p)
        \/ BeginTx(p, ServiceLoad)
        \/ ExecBatch(p)
        \/ CommitTx(p)
        \/ ExecFails(p)
        \/ ServiceStored(p)
        \/ ServiceReturn(p)

SpecIndex == Init /\ [][NextIndex]_vars

-----------------------------------------------------------------------------
(* The context of a directory Index is cancelled while it runs.  Nothing   *)
(* in Index, indexDirectory, indexFile or ChunkFile reads ctx; it reaches  *)
(* http.NewRequestWithContext in Embed and the BeginTx, ExecContext and    *)
(* Commit of AddBatch, which fail once it is cancelled.                    *)

(* The cancellation: svc.cancelAt, svc.cancelPc and svc.committedAt are    *)
(* history, where the walk was and how many rows the table had.            *)
Cancel ==
    /\ svc.fn = "Index"
    /\ svc.dir
    /\ svc.pc \in {"walk", "file", "embed", "store"}
    /\ ~svc.cancelled
    /\ svc' = [svc EXCEPT !.cancelled = TRUE, !.cancelAt = svc.at,
                          !.cancelPc = svc.pc, !.committedAt = Len(rows)]
    /\ UNCHANGED SvcFrame
    /\ UNCHANGED notService

(* Embed under ctx: after the cancellation the request fails.  (A text in  *)
(* the embedder's cache would still be answered; no text is taken to be    *)
(* cached here.)                                                           *)
CtxEmbed(p) ==
    /\ ServiceEmbed(p)
    /\ svc.cancelled => svc'.pc # "embed"

(* AddBatch under ctx: after the cancellation BeginTx, ExecContext and     *)
(* Commit return the context's error, which is ExecFails.                  *)
CtxBeginTx(p) == ~svc.cancelled /\ BeginTx(p, ServiceLoad)

CtxExecBatch(p) == ~svc.cancelled /\ ExecBatch(p)

CtxCommitTx(p) == ~svc.cancelled /\ CommitTx(p)

NextCancel ==
    \E p \in {1} :
        \/ NewService(DirLoad)
        \/ ServiceIndex(p, DirLoad)
        \/ Cancel
        \/ ServiceWalk(p)
        \/ ServiceChunkFile(p)
        \/ CtxEmbed(p)
        \/ ServiceStore(p)
        \/ Lock(p)
        \/ CtxBeginTx(p)
        \/ CtxExecBatch(p)
        \/ CtxCommitTx(p)
        \/ ExecFails(p)
        \/ ServiceStored(p)
        \/ ServiceReturn(p)

SpecCancel == Init /\ [][NextCancel]_vars

-----------------------------------------------------------------------------
(* encoding.go: topKResults, selectTopK, heapTopK. *)

MaxResults == 7    \* topKResults is called on up to MaxResults results

SelectMax == 5     \* topKResults: selection up to k = 5, the heap above

(* The similarities of the results handed to topKResults. *)
Similarities == {1, 2, 3}

(* A result list: result number i (Memory i) with the i-th similarity. *)
ResultsOf(ss) == [i \in 1..Len(ss) |-> [Memory |-> i, Similarity |-> ss[i]]]

ResultLists == {ResultsOf(ss) : ss \in SeqsUpTo(Similarities, MaxResults)}

Swap(r, i, j) == [r EXCEPT ![i] = r[j], ![j] = r[i]]

RECURSIVE ScanMax(_, _, _)
(* The inner loop of selectTopK: the first index from maxIdx on that holds *)
(* the greatest similarity.                                                *)
ScanMax(r, j, maxIdx) ==
    IF j > Len(r) THEN maxIdx
    ELSE ScanMax(r, j + 1,
                 IF r[j].Similarity > r[maxIdx].Similarity THEN j ELSE maxIdx)

RECURSIVE SelectLoop(_, _, _, _)
SelectLoop(r, i, k, top) ==
    IF i > k THEN top
    ELSE LET swapped == Swap(r, i, ScanMax(r, i + 1, i))
         IN  SelectLoop(swapped, i + 1, k, Append(top, swapped[i]))

selectTopK(results, k) == SelectLoop(results, 1, k, <<>>)

RECURSIVE heapifyUp(_, _)
(* Slot i of the Go slice is slot i + 1 here: the parent of slot i is      *)
(* slot i \div 2, its children are slots 2i and 2i + 1.                    *)
heapifyUp(heap, i) ==
    IF i <= 1 THEN heap
    ELSE LET parent == i \div 2
         IN  IF heap[parent].Similarity <= heap[i].Similarity THEN heap
             ELSE heapifyUp(Swap(heap, parent, i), parent)

RECURSIVE heapifyDown(_, _)
heapifyDown(heap, i) ==
    LET n == Len(heap)
        left == 2 * i
        right == 2 * i + 1
        s1 == IF left <= n /\ heap[left].Similarity < heap[i].Similarity
              THEN left ELSE i
        smallest == IF right <= n /\ heap[right].Similarity < heap[s1].Similarity
                    THEN right ELSE s1
    IN  IF smallest = i THEN heap
        ELSE heapifyDown(Swap(heap, i, smallest), smallest)

(* heapTopK replaces the root of a full heap by r when r is more similar.  *)
(* The replacement the other way round. *)
HeapAdmitsSmaller(r, root) == r.Similarity < root.Similarity

HeapAdmits(r, root) == r.Similarity > root.Similarity

RECURSIVE HeapLoop(_, _, _, _)
HeapLoop(results, n, k, heap) ==
    IF n > Len(results) THEN heap
    ELSE LET r == results[n]
         IN  HeapLoop(results, n + 1, k,
                 IF Len(heap) < k
                 THEN heapifyUp(Append(heap, r), Len(heap) + 1)
                 ELSE IF HeapAdmits(r, heap[1])
                      THEN heapifyDown([heap EXCEPT ![1] = r], 1)
                      ELSE heap)

heapTopK(results, k) ==
    IF k <= 0 THEN <<>>
    ELSE sortBySimilarity(HeapLoop(results, 1, k, <<>>))

TopKStrategy(results, k) ==
    IF k >= Len(results) THEN "sort"
    ELSE IF k <= SelectMax THEN "select" ELSE "heap"

topKResults(results, k) ==
    IF k >= Len(results) THEN sortBySimilarity(results)
    ELSE IF k <= SelectMax THEN selectTopK(results, k)
    ELSE heapTopK(results, k)

(* A caller hands a result list and k >= 0 to topKResults. *)
TopKCall ==
    /\ topk.pc = "idle"
    /\ \E r \in ResultLists, k \in 0..(MaxResults + 1) :
          topk' = [NoTopK EXCEPT !.pc = "call", !.results = r, !.k = k]
    /\ UNCHANGED <<coreVars, kern, web, srv>>

TopKResults ==
    /\ topk.pc = "call"
    /\ topk' = [topk EXCEPT !.pc = "ret",
                            !.out = topKResults(topk.results, topk.k),
                            !.strategy = TopKStrategy(topk.results, topk.k)]
    /\ UNCHANGED <<coreVars, kern, web, srv>>

TopKReturn ==
    /\ topk.pc = "ret"
    /\ topk' = NoTopK
    /\ UNCHANGED <<coreVars, kern, web, srv>>

NextTopK == TopKCall \/ TopKResults \/ TopKReturn

SpecTopK == Init /\ [][NextTopK]_vars

-----------------------------------------------------------------------------
(* simd: BatchCosineSimilarity. *)

MaxDim == 2        \* the query and the targets have up to MaxDim components

MaxTargets == 2    \* BatchCosineSimilarity is handed up to MaxTargets targets

KernelVectors == SeqsUpTo({-1, 0, 1}, MaxDim)

(* What the pre-allocated slice holds before the call: zeroes of a fresh   *)
(* make, or the values of an earlier use.                                  *)
Prefilled == {0, Unit}

(* queryNorm: the square root of the sum of squares. *)
QueryNorm(query) == sqrt32(DotLoop(query, query, Len(query)))

(* The body of the loop for one target that is no longer than the query:   *)
(* dot and targetNorm run over the target's length.                        *)
TargetSimilarity(query, target) ==
    LET n == Len(target)
        dot == DotLoop(query, target, n)
        targetNorm == DotLoop(target, target, n)
    IN  IF targetNorm = 0 THEN 0
        ELSE LET den == (QueryNorm(query) * sqrt32(targetNorm)) \div Unit
                 q == (Abs(dot) * Unit * Unit) \div den
             IN  IF dot < 0 THEN -q ELSE q

(* query[j] with j >= len(query): an index out of range, a run-time panic. *)
OutOfRange(query, target) == Len(target) > Len(query)

RECURSIVE TargetLoop(_, _, _, _)
(* The loop over the targets from target i on: it stops in a panic at the  *)
(* first target longer than the query, the earlier slots written.          *)
TargetLoop(query, targets, i, similarities) ==
    IF i > Len(targets) THEN [similarities |-> similarities, panic |-> FALSE]
    ELSE IF OutOfRange(query, targets[i])
         THEN [similarities |-> similarities, panic |-> TRUE]
         ELSE TargetLoop(query, targets, i + 1,
                  [similarities EXCEPT
                      ![i] = TargetSimilarity(query, targets[i])])

BatchCosineSimilarity(query, targets, similarities) ==
    IF QueryNorm(query) = 0
    THEN [similarities |-> [i \in 1..Len(similarities) |-> 0], panic |-> FALSE]
    ELSE TargetLoop(query, targets, 1, similarities)

(* A caller hands a query, targets and a slice of len(targets) slots. *)
KernelCall ==
    /\ kern.pc = "idle"
    /\ \E q \in KernelVectors, ts \in SeqsUpTo(KernelVectors, MaxTargets),
          old \in Prefilled :
          kern' = [NoKernel EXCEPT !.pc = "call", !.query = q, !.targets = ts,
                       !.similarities = [i \in 1..Len(ts) |-> old]]
    /\ UNCHANGED <<coreVars, topk, web, srv>>

KernelBatch ==
    /\ kern.pc = "call"
    /\ LET r == BatchCosineSimilarity(kern.query, kern.targets, kern.similarities)
       IN  kern' = [kern EXCEPT !.pc = "ret", !.similarities = r.similarities,
                                !.panic = r.panic]
    /\ UNCHANGED <<coreVars, topk, web, srv>>

KernelReturn ==
    /\ kern.pc = "ret"
    /\ kern' = NoKernel
    /\ UNCHANGED <<coreVars, topk, web, srv>>

NextKernel == KernelCall \/ KernelBatch \/ KernelReturn

SpecKernel == Init /\ [][NextKernel]_vars

-----------------------------------------------------------------------------
(* server: the handlers of /memory, /memory/:id, /search and /index.  A    *)
(* request is its route, its method, whether its body decodes, the id of   *)
(* its path, its argument (Content, Query or Path) and what fails below    *)
(* the service while it is served.                                         *)

Routes == {"/memory", "/memory/", "/search", "/index"}

Methods == {"GET", "POST", "DELETE"}

PathIds == {"", "known", "unknown"}

Arguments == {"", "x"}

Failures == {"", "embed", "store", "stat"}

(* serviceImpl.Add, Search and Index: the error returned. *)
svcAdd(arg, fails) ==
    IF arg = "" THEN "content is required"
    ELSE IF fails = "embed" THEN "failed to generate embedding"
    ELSE IF fails = "store" THEN "failed to store memory"
    ELSE ""

svcSearch(arg, fails) ==
    IF arg = "" THEN "query is required"
    ELSE IF fails = "embed" THEN "failed to generate query embedding"
    ELSE IF fails = "store" THEN "search failed"
    ELSE ""

svcIndex(arg, fails) ==
    IF arg = "" THEN "path is required"
    ELSE IF fails = "stat" THEN "failed to access path"
    ELSE IF fails = "embed" THEN "failed to generate embeddings"
    ELSE IF fails = "store" THEN "failed to store memories"
    ELSE ""

(* serviceImpl.Get and Delete hand the store's error on: a failed query    *)
(* or statement, or no row with the id.                                    *)
svcGet(id, fails) ==
    IF fails = "store" THEN "sql: database is closed"
    ELSE IF id = "unknown" THEN "memory not found"
    ELSE ""

svcDelete(id, fails) ==
    IF fails = "store" THEN "failed to delete memory"
    ELSE IF id = "unknown" THEN "memory not found: unknown"
    ELSE ""

(* writeError, http.Error, writeJSON: the response. *)
writeError(message, status) ==
    [status |-> status, json |-> TRUE, error |-> message]

httpError(message, status) ==
    [status |-> status, json |-> FALSE, error |-> ""]

writeJSON(status) == [status |-> status, json |-> TRUE, error |-> ""]

(* A handler that posts to the service: the method, the body, the call. *)
PostHandler(err) ==
    IF web.method # "POST" THEN [r |-> httpError("Method not allowed", 405), err |-> ""]
    ELSE IF ~web.decodes THEN [r |-> writeError("Invalid request body", 400), err |-> ""]
    ELSE IF err # "" THEN [r |-> writeError(err, 500), err |-> err]
    ELSE [r |-> writeJSON(IF web.route = "/memory" THEN 201 ELSE 200), err |-> ""]

Respond(h) ==
    /\ web' = [web EXCEPT !.pc = "ret", !.err = h.err, !.status = h.r.status,
                          !.json = h.r.json, !.error = h.r.error]
    /\ UNCHANGED <<coreVars, topk, kern, srv>>

(* A client sends a request. *)
HTTPRequest ==
    /\ web.pc = "idle"
    /\ \E route \in Routes, method \in Methods, decodes \in BOOLEAN,
          id \in PathIds, arg \in Arguments, fails \in Failures :
          /\ route # "/memory/" => id = ""
          /\ route = "/memory/" => arg = "" /\ decodes
          /\ web' = [NoExchange EXCEPT !.pc = "handler", !.route = route,
                         !.method = method, !.decodes = decodes, !.id = id,
                         !.arg = arg, !.fails = fails]
    /\ UNCHANGED <<coreVars, topk, kern, srv>>

handleMemory ==
    /\ web.pc = "handler" /\ web.route = "/memory"
    /\ Respond(PostHandler(svcAdd(web.arg, web.fails)))

handleMemoryByID ==
    /\ web.pc = "handler" /\ web.route = "/memory/"
    /\ Respond(
         IF web.id = "" THEN [r |-> writeError("Memory ID required", 400), err |-> ""]
         ELSE IF web.method = "GET"
         THEN LET err == svcGet(web.id, web.fails)
              IN  IF err # "" THEN [r |-> writeError(err, 404), err |-> err]
                  ELSE [r |-> writeJSON(200), err |-> ""]
         ELSE IF web.method = "DELETE"
         THEN LET err == svcDelete(web.id, web.fails)
              IN  IF err # "" THEN [r |-> writeError(err, 404), err |-> err]
                  ELSE [r |-> writeJSON(200), err |-> ""]
         ELSE [r |-> httpError("Method not allowed", 405), err |-> ""])

handleSearch ==
    /\ web.pc = "handler" /\ web.route = "/search"
    /\ Respond(PostHandler(svcSearch(web.arg, web.fails)))

handleIndex ==
    /\ web.pc = "handler" /\ web.route = "/index"
    /\ Respond(PostHandler(svcIndex(web.arg, web.fails)))

(* The response is sent. *)
HTTPDone ==
    /\ web.pc = "ret"
    /\ web' = NoExchange
    /\ UNCHANGED <<coreVars, topk, kern, srv>>

NextHTTP ==
    \/ HTTPRequest
    \/ handleMemory
    \/ handleMemoryByID
    \/ handleSearch
    \/ handleIndex
    \/ HTTPDone

SpecHTTP == Init /\ [][NextHTTP]_vars

-----------------------------------------------------------------------------
(* moneta serve: runServe, Server.Start, Server.Shutdown, the handlers and *)
(* serviceImpl.Close.  srv.main is where runServe is, srv.sig where the    *)
(* goroutine waiting for the signal is, srv.server the state of s.server   *)
(* (nil, created, listening, closing: Shutdown called and handlers still   *)
(* running, stopped), srv.handlers what each handler goroutine does.       *)

Handlers == 1..NumHandlers

Alive == srv.main # "exited"

ServeFrame == UNCHANGED <<coreVars, topk, kern, web>>

(* Server.Start up to the assignment of s.server. *)
StartAssign ==
    /\ srv.main = "init"
    /\ srv' = [srv EXCEPT !.main = "assigned", !.server = "created"]
    /\ ServeFrame

(* s.server.ListenAndServe(): it serves, or returns ErrServerClosed when   *)
(* Shutdown has been called on the server.                                 *)
StartListen ==
    /\ srv.main = "assigned"
    /\ srv' = IF srv.server = "created"
              THEN [srv EXCEPT !.main = "serving", !.server = "listening"]
              ELSE [srv EXCEPT !.main = "returned"]
    /\ ServeFrame

(* ListenAndServe returns ErrServerClosed as soon as Shutdown is called,   *)
(* and runServe returns it.                                                *)
ServeReturns ==
    /\ srv.main = "serving"
    /\ srv.server \in {"closing", "stopped"}
    /\ srv' = [srv EXCEPT !.main = "returned"]
    /\ ServeFrame

(* main: os.Exit(1) after runServe's error; every goroutine ends. *)
Exit ==
    /\ srv.main = "returned"
    /\ srv' = [srv EXCEPT !.main = "exited", !.server = "stopped",
                          !.handlers = [h \in Handlers |-> "idle"]]
    /\ ServeFrame

(* SIGINT or SIGTERM arrives after signal.Notify. *)
Signal ==
    /\ Alive
    /\ ~srv.signalled
    /\ srv' = [srv EXCEPT !.signalled = TRUE]
    /\ ServeFrame

(* The goroutine receives from done. *)
SignalReceived ==
    /\ Alive
    /\ srv.sig = "wait" /\ srv.signalled
    /\ srv' = [srv EXCEPT !.sig = "shutdown"]
    /\ ServeFrame

(* Server.Shutdown: nil when s.server is nil; else http.Server.Shutdown    *)
(* closes the listeners and waits for the handlers, at most 5 seconds.     *)
ShutdownCall ==
    /\ Alive
    /\ srv.sig = "shutdown"
    /\ srv' = CASE srv.server = "nil" -> [srv EXCEPT !.sig = "close"]
                [] srv.server = "created" ->
                      [srv EXCEPT !.sig = "close", !.server = "stopped"]
                [] OTHER -> [srv EXCEPT !.sig = "waiting", !.server = "closing"]
    /\ ServeFrame

(* Every handler has returned: http.Server.Shutdown returns nil. *)
ShutdownIdle ==
    /\ Alive
    /\ srv.sig = "waiting"
    /\ \A h \in Handlers : srv.handlers[h] = "idle"
    /\ srv' = [srv EXCEPT !.sig = "close", !.server = "stopped"]
    /\ ServeFrame

(* The 5 seconds pass with a handler still running: http.Server.Shutdown   *)
(* returns the context's error, which the goroutine does not look at.      *)
ShutdownTimeout ==
    /\ Alive
    /\ srv.sig = "waiting"
    /\ \E h \in Handlers : srv.handlers[h] # "idle"
    /\ srv' = [srv EXCEPT !.sig = "close", !.late = TRUE]
    /\ ServeFrame

(* svc.Close(): the embedder's idle connections, then Store.Close, which   *)
(* closes the database without taking s.mu.                                *)
ServiceClose ==
    /\ Alive
    /\ srv.sig = "close"
    /\ srv' = [srv EXCEPT !.sig = "done", !.closed = TRUE]
    /\ ServeFrame

(* The listening server accepts a request and starts its handler. *)
Accept(h) ==
    /\ srv.server = "listening"
    /\ srv.handlers[h] = "idle"
    /\ srv' = [srv EXCEPT !.handlers[h] = "handler"]
    /\ ServeFrame

(* The handler calls the service, which calls an operation of the store. *)
StoreBegin(h) ==
    /\ Alive
    /\ srv.handlers[h] = "handler"
    /\ srv' = [srv EXCEPT !.handlers[h] = "store"]
    /\ ServeFrame

StoreEnd(h) ==
    /\ Alive
    /\ srv.handlers[h] = "store"
    /\ srv' = [srv EXCEPT !.handlers[h] = "handler"]
    /\ ServeFrame

HandlerReturn(h) ==
    /\ Alive
    /\ srv.handlers[h] = "handler"
    /\ srv' = [srv EXCEPT !.handlers[h] = "idle"]
    /\ ServeFrame

NextServe ==
    \/ StartAssign
    \/ StartListen
    \/ ServeReturns
    \/ Exit
    \/ Signal
    \/ SignalReceived
    \/ ShutdownCall
    \/ ShutdownIdle
    \/ ShutdownTimeout
    \/ ServiceClose
    \/ \E h \in Handlers :
          Accept(h) \/ StoreBegin(h) \/ StoreEnd(h) \/ HandlerReturn(h)

SpecServe == Init /\ [][NextServe]_vars


-----------------------------------------------------------------------------
(* Properties of the store.  A property about an operation is stated on    *)
(* the state in which the operation has run its statements and is about to *)
(* return: ret holds its argument, its result and the table it worked on.  *)

Procs == 1..NumProcs

AtReturn(p, o) == pc[p] = "ret" /\ op[p] = o

(* The ids of the memories in a Search result and in a List result. *)
ResultIds(out) == {out[k].Memory.id : k \in 1..Len(out)}

ListIds(out) == {out[k].id : k \in 1..Len(out)}

(* The similarity Search gives a stored row. *)
RowSimilarity(row, embedding) ==
    cosineSimilarity(embedding, scanMemory(row).embedding)

(* M: the positions of the rows of tbl that pass the WHERE clause built    *)
(* from opts and the threshold.                                            *)
Matching(tbl, embedding, opts) ==
    {i \in 1..Len(tbl) :
        /\ SearchWhere(tbl[i], opts)
        /\ opts.Threshold > 0 => RowSimilarity(tbl[i], embedding) >= opts.Threshold}

(* The rows of tbl a batch of process w has written, as a reader saw them. *)
SeenOfBatch(tbl, w) == Cardinality({i \in 1..Len(tbl) : tbl[i].batch = w})

(* C1: while an AddBatch is running, what Get, List, Count, Stats or Search *)
(* of another caller reads holds either none of the batch's rows or all of  *)
(* them, never some of them.                                                *)
C1_BatchAllOrNothing ==
    \A r \in Procs :
        (pc[r] \in {"ret", "stats2", "stats3"} /\ op[r] \in ReadOps) =>
            \A w \in Procs :
                \/ SeenOfBatch(ret[r].pre, w) = 0
                \/ /\ tx[w].active
                   /\ SeenOfBatch(ret[r].pre, w) = Len(tx[w].batch)

(* An AddBatch has inserted some of its memories and not yet all, and a    *)
(* reading operation of another caller is waiting for s.mu.                *)
C1_Witness ==
    \E w \in Procs, r \in Procs :
        /\ pc[w] = "tx"
        /\ tx[w].n > 0
        /\ tx[w].n < Len(tx[w].batch)
        /\ pc[r] = "lock"
        /\ op[r] \in ReadOps

(* The memory m that Add stored under id i and that no Update, Delete or   *)
(* DeleteByProject has touched since is ranked within the limit of a       *)
(* Search on tbl: fewer than limit other matching rows score as high.      *)
RanksWithin(tbl, i, m, embedding, opts) ==
    LET sim == cosineSimilarity(embedding, m.embedding)
        rivals == {k \in Matching(tbl, embedding, opts) :
                     /\ tbl[k].id # i
                     /\ RowSimilarity(tbl[k], embedding) >= sim}
    IN  Cardinality(rivals) < (IF opts.Limit <= 0 THEN 10 ELSE opts.Limit)

Eligible(tbl, i, embedding, opts) ==
    /\ hist[i].added # <<>>
    /\ LET m == hist[i].added[1]
       IN  /\ SearchWhere(m, opts)
           /\ opts.Threshold > 0 =>
                  cosineSimilarity(embedding, m.embedding) >= opts.Threshold
           /\ RanksWithin(tbl, i, m, embedding, opts)

(* C2: a memory stored by a successful Add, with no Update, Delete or      *)
(* DeleteByProject of it since, is in the result of every later Search     *)
(* whose filters it passes, whose threshold it meets and within whose      *)
(* limit it ranks.                                                         *)
C2_AddVisibleToSearch ==
    \A p \in Procs :
        AtReturn(p, "Search") =>
            \A i \in Ids :
                Eligible(ret[p].pre, i, ret[p].arg.embedding, ret[p].arg.opts) =>
                    i \in ResultIds(ret[p].out)

(* A Search with a project filter, a threshold and limit 1 returns the     *)
(* added memory while another row is stored too.                           *)
C2_Witness ==
    \E p \in Procs, i \in Ids :
        /\ AtReturn(p, "Search")
        /\ Eligible(ret[p].pre, i, ret[p].arg.embedding, ret[p].arg.opts)
        /\ ret[p].arg.opts.Project # ""
        /\ ret[p].arg.opts.Threshold > 0
        /\ ret[p].arg.opts.Limit = 1
        /\ Len(ret[p].pre) > 1
        /\ i \in ResultIds(ret[p].out)

(* C3: when an insert inside AddBatch fails, AddBatch returns an error and *)
(* the stored rows are exactly those from before the call.                 *)
C3_BatchRollsBack ==
    \A p \in Procs :
        (AtReturn(p, "AddBatch") /\ tx[p].failed) =>
            /\ ret[p].err
            /\ rows = ret[p].pre

(* An AddBatch whose second insert failed after its first had succeeded. *)
C3_Witness ==
    \E p \in Procs :
        /\ AtReturn(p, "AddBatch")
        /\ tx[p].failed
        /\ tx[p].n > 0
        /\ ret[p].err

UniqueIds(tbl) ==
    \A i \in 1..Len(tbl), j \in 1..Len(tbl) : tbl[i].id = tbl[j].id => i = j

(* C4: Add of a memory whose id is already stored returns an error and     *)
(* leaves the rows as they were; the ids of the stored rows are pairwise   *)
(* distinct in every state.                                                *)
C4_IdIsKey ==
    /\ UniqueIds(rows)
    /\ \A p \in Procs :
          (AtReturn(p, "Add") /\ ret[p].arg.id \in RowIds(ret[p].pre)) =>
              /\ ret[p].err
              /\ rows = ret[p].pre

(* An Add of a second version of a stored id has been refused. *)
C4_Witness ==
    \E p \in Procs :
        /\ AtReturn(p, "Add")
        /\ ret[p].arg.id \in RowIds(ret[p].pre)
        /\ \E k \in 1..Len(ret[p].pre) :
              /\ ret[p].pre[k].id = ret[p].arg.id
              /\ ret[p].pre[k].content # ret[p].arg.content
        /\ ret[p].err


(* C5: a Search result is in non-increasing order of similarity, and with  *)
(* a threshold above 0 every result has at least that similarity.          *)
C5_SortedAboveThreshold ==
    \A p \in Procs :
        AtReturn(p, "Search") =>
            LET out == ret[p].out
                opts == ret[p].arg.opts
            IN  /\ \A k \in 1..(Len(out) - 1) :
                      out[k].Similarity >= out[k + 1].Similarity
                /\ opts.Threshold > 0 =>
                      \A k \in 1..Len(out) : out[k].Similarity >= opts.Threshold

(* A Search with a threshold returns two results of different similarity,  *)
(* the better one stored after the other, and has dropped a row that       *)
(* passes the WHERE clause and is below the threshold.                     *)
C5_Witness ==
    \E p \in Procs :
        /\ AtReturn(p, "Search")
        /\ ret[p].arg.opts.Threshold > 0
        /\ Len(ret[p].out) >= 2
        /\ ret[p].out[1].Similarity > ret[p].out[2].Similarity
        /\ \E i \in 1..Len(ret[p].pre), j \in 1..Len(ret[p].pre) :
              /\ i < j
              /\ ret[p].pre[i].id = ret[p].out[2].Memory.id
              /\ ret[p].pre[j].id = ret[p].out[1].Memory.id
        /\ \E i \in 1..Len(ret[p].pre) :
              /\ SearchWhere(ret[p].pre[i], ret[p].arg.opts)
              /\ RowSimilarity(ret[p].pre[i], ret[p].arg.embedding)
                     < ret[p].arg.opts.Threshold

(* C6: Search returns exactly min(limit, |M|) results, M being the stored  *)
(* rows that pass the filter predicate and the threshold and a limit <= 0  *)
(* meaning 10; no row of M that is left out has a strictly higher          *)
(* similarity than a returned one.                                         *)
C6_LimitAndBest ==
    \A p \in Procs :
        AtReturn(p, "Search") =>
            LET out == ret[p].out
                tbl == ret[p].pre
                q == ret[p].arg.embedding
                opts == ret[p].arg.opts
                M == Matching(tbl, q, opts)
                limit == IF opts.Limit <= 0 THEN 10 ELSE opts.Limit
            IN  /\ Len(out) = Min(limit, Cardinality(M))
                /\ \A i \in M :
                      tbl[i].id \notin ResultIds(out) =>
                          \A k \in 1..Len(out) :
                              RowSimilarity(tbl[i], q) <= out[k].Similarity

(* A Search with limit 0 returns 10 of more than 10 matching rows and      *)
(* leaves out a row that scores lower than the last one returned.          *)
C6_Witness ==
    \E p \in Procs :
        /\ AtReturn(p, "Search")
        /\ ret[p].arg.opts.Limit = 0
        /\ Cardinality(Matching(ret[p].pre, ret[p].arg.embedding, ret[p].arg.opts)) > 10
        /\ Len(ret[p].out) = 10
        /\ \E i \in Matching(ret[p].pre, ret[p].arg.embedding, ret[p].arg.opts) :
              /\ ret[p].pre[i].id \notin ResultIds(ret[p].out)
              /\ RowSimilarity(ret[p].pre[i], ret[p].arg.embedding)
                     < ret[p].out[10].Similarity

(* The filters as they are documented: a file path passes when one of      *)
(* opts.FilePaths is a prefix of it.                                       *)
SatisfiesFilters(m, opts) ==
    /\ opts.Project # "" => m.project = opts.Project
    /\ Len(opts.Types) > 0 => \E i \in 1..Len(opts.Types) : m.type = opts.Types[i]
    /\ Len(opts.FilePaths) > 0 =>
           \E i \in 1..Len(opts.FilePaths) : HasPrefix(m.file_path, opts.FilePaths[i])

(* C7: every result of Search satisfies all the filters given: project     *)
(* equal to opts.Project when set, type in opts.Types when non-empty, and  *)
(* file_path with one of opts.FilePaths as a prefix when non-empty.        *)
C7_ResultsSatisfyFilters ==
    \A p \in Procs :
        AtReturn(p, "Search") =>
            \A k \in 1..Len(ret[p].out) :
                SatisfiesFilters(ret[p].out[k].Memory, ret[p].arg.opts)

(* What a read returns holds no id whose history is in gone. *)
HidesIds(p, gone) ==
    /\ AtReturn(p, "Get") => (ret[p].arg \in gone => ret[p].err)
    /\ AtReturn(p, "Search") => ResultIds(ret[p].out) \cap gone = {}
    /\ AtReturn(p, "List") => ListIds(ret[p].out) \cap gone = {}

(* C8, as stated: once Delete(id) has succeeded, every later Get(id) is    *)
(* not-found and no later Search or List result holds id.                  *)
C8_DeletedNeverSeenAgain ==
    \A p \in Procs : HidesIds(p, {i \in Ids : hist[i].del # "never"})

(* C8, amended: once Delete(id) has succeeded, and until an Add or an      *)
(* AddBatch stores that id again, every Get(id) is not-found and no Search *)
(* or List result holds id.                                                *)
C8_DeletedHiddenUntilStoredAgain ==
    \A p \in Procs : HidesIds(p, {i \in Ids : hist[i].del = "deleted"})

(* A Get of a deleted id finds nothing while another row is stored. *)
C8_Witness ==
    \E p \in Procs :
        /\ AtReturn(p, "Get")
        /\ hist[ret[p].arg].del = "deleted"
        /\ ret[p].err
        /\ Len(ret[p].pre) > 0

(* C9: Get of the id of a memory that Add stored, with no Update or Delete *)
(* since, returns a memory with the same id, content, project, type,       *)
(* file_path, language and metadata and an element-wise equal embedding.   *)
C9_GetReturnsWhatAddStored ==
    \A p \in Procs :
        (AtReturn(p, "Get") /\ hist[ret[p].arg].added # <<>>) =>
            /\ ~ret[p].err
            /\ LET m == hist[ret[p].arg].added[1]
                   got == ret[p].out[1]
               IN  /\ got.id = m.id
                   /\ got.content = m.content
                   /\ got.project = m.project
                   /\ got.type = m.type
                   /\ got.file_path = m.file_path
                   /\ got.language = m.language
                   /\ got.metadata = m.metadata
                   /\ got.embedding = m.embedding

(* The id that Get, Update or Delete was called with. *)
ArgId(p) == IF op[p] = "Update" THEN ret[p].arg.id ELSE ret[p].arg

(* C10: Get, Update and Delete of an id that is not stored return          *)
(* not-found and leave the rows as they were; Update creates no row.       *)
C10_AbsentIdNotFound ==
    \A p \in Procs :
        (pc[p] = "ret" /\ op[p] \in {"Get", "Update", "Delete"}
                       /\ ArgId(p) \notin RowIds(ret[p].pre)) =>
            /\ ret[p].err
            /\ rows = ret[p].pre

(* An Update of an id that is not stored has returned not-found while      *)
(* another row is stored.                                                  *)
C10_Witness ==
    \E p \in Procs :
        /\ AtReturn(p, "Update")
        /\ ret[p].arg.id \notin RowIds(ret[p].pre)
        /\ Len(ret[p].pre) > 0
        /\ ret[p].err
        /\ rows = ret[p].pre


(* The projects a caller may name: the empty one and those of the data. *)
Projects == {"", "A", "B"}

RowsOfProject(tbl, project) ==
    SeqFilter(tbl, {i \in 1..Len(tbl) : tbl[i].project = project})

(* DeleteByProject has returned without error; Count of each project in    *)
(* deleted is 0, Count of each project in kept is what it was, and the     *)
(* rows of every project other than the deleted one are as before.         *)
DeleteByProjectFrame(p, deleted, kept) ==
    /\ ~ret[p].err
    /\ \A d \in deleted : CountBody(rows, d) = 0
    /\ \A q \in kept : CountBody(rows, q) = CountBody(ret[p].pre, q)
    /\ \A q \in Projects \ {ret[p].arg} :
          RowsOfProject(rows, q) = RowsOfProject(ret[p].pre, q)
    /\ RowsOfProject(rows, ret[p].arg) = <<>>

(* C11, as stated: after DeleteByProject(p), Count(p) = 0 and for every    *)
(* other project p' Count(p') and the rows of p' are what they were; the   *)
(* call succeeds also when no row has project p.                           *)
C11_DeleteByProjectAnyProject ==
    \A p \in Procs :
        AtReturn(p, "DeleteByProject") =>
            DeleteByProjectFrame(p, {ret[p].arg}, Projects \ {ret[p].arg})

(* C11, amended: DeleteByProject(p) succeeds, also when no row has project *)
(* p; afterwards no row has project p and the rows of every other project  *)
(* are what they were; for a non-empty p, Count(p) = 0 and Count(p') is    *)
(* unchanged for every other non-empty p'.                                 *)
C11_DeleteByProjectNamedProject ==
    \A p \in Procs :
        AtReturn(p, "DeleteByProject") =>
            DeleteByProjectFrame(p, {ret[p].arg} \ {""},
                                 Projects \ {ret[p].arg, ""})

(* DeleteByProject("A") has removed a row and left a row of project B. *)
C11_Witness ==
    \E p \in Procs :
        /\ AtReturn(p, "DeleteByProject")
        /\ ret[p].arg = "A"
        /\ Len(RowsOfProject(ret[p].pre, "A")) > 0
        /\ Len(RowsOfProject(rows, "B")) > 0
        /\ CountBody(rows, "A") = 0


(* C12: every stored memory's embedding has exactly Dimensions elements:   *)
(* Add and AddBatch reject a memory whose embedding has another length and *)
(* leave the store unchanged.                                              *)
C12_EmbeddingsHaveDimensions ==
    /\ \A i \in 1..Len(rows) : Len(scanMemory(rows[i]).embedding) = Dimensions
    /\ \A p \in Procs :
          /\ (AtReturn(p, "Add") /\ Len(ret[p].arg.embedding) # Dimensions) =>
                 (ret[p].err /\ rows = ret[p].pre)
          /\ (AtReturn(p, "AddBatch")
                 /\ \E k \in 1..Len(ret[p].arg) :
                        Len(ret[p].arg[k].embedding) # Dimensions) =>
                 (ret[p].err /\ rows = ret[p].pre)


(* C14: every stored memory has updated_at >= created_at, whatever         *)
(* created_at the caller gave to Add or AddBatch and after any number of   *)
(* Updates, the clock never going backwards.                               *)
C14_UpdatedNotBeforeCreated ==
    \A i \in 1..Len(rows) : rows[i].updated_at >= rows[i].created_at


(* Process p is between taking s.mu and releasing it. *)
InCriticalSection(p) == pc[p] \in {"cs", "tx", "stats2", "stats3", "ret"}

(* C15: no writing operation (Add, Update, Delete, AddBatch,               *)
(* DeleteByProject, Compact) is inside its critical section together with  *)
(* any other operation; reading operations may be inside together.         *)
C15_WritersExclusive ==
    \A p \in Procs, q \in Procs :
        (p # q /\ InCriticalSection(p) /\ op[p] \in WriteOps) =>
            ~InCriticalSection(q)

(* Two reading operations are inside their critical sections together,     *)
(* one of them with its result already read.                               *)
C15_Witness ==
    \E p \in Procs, q \in Procs :
        /\ p # q
        /\ op[p] \in ReadOps
        /\ op[q] \in ReadOps
        /\ pc[p] = "ret"
        /\ pc[q] = "cs"
        /\ readers = {p, q}


-----------------------------------------------------------------------------
(* Properties of the cache.  A property about Put or Get is stated on the  *)
(* state in which the call has run its body and is about to unlock and     *)
(* return: frame holds its argument, its result and, for Put, the keys of  *)
(* the list and the order of use it found.                                 *)

AfterBody(p, fn) == cpc[p] = "unlock" /\ frame[p].fn = fn

(* C16: for an LRU built with any capacity C >= 0, the number of entries   *)
(* held (Len, the length of the list) never exceeds C, whatever Put, Get,  *)
(* Delete and Clear calls were made.                                       *)
C16_LenWithinCapacity == Len(order) <= capacity

(* The least recently used of the keys in pre: the one furthest back in    *)
(* the history of uses.                                                    *)
LeastRecentlyUsed(pre, used) ==
    CHOOSE k \in Range(pre) :
        \A j \in Range(pre) :
            (CHOOSE i \in 1..Len(used) : used[i] = j)
                <= (CHOOSE i \in 1..Len(used) : used[i] = k)

(* C17: when Put inserts a new key into a full LRU (as many entries as the *)
(* capacity, and at least one), exactly one entry is evicted and it is the *)
(* least recently used one, a Get hit and a Put both counting as a use;    *)
(* any other Put evicts nothing; the key put is in the cache afterwards.   *)
C17_PutEvictsLeastRecentlyUsed ==
    \A p \in Procs :
        AfterBody(p, "Put") =>
            LET pre == frame[p].pre
                key == frame[p].key
                full == Len(pre) >= capacity /\ Len(pre) > 0
                evicted == Range(pre) \ items
            IN  /\ evicted = IF key \notin Range(pre) /\ full
                             THEN {LeastRecentlyUsed(pre, frame[p].preUsed)}
                             ELSE {}
                /\ items = (Range(pre) \ evicted) \cup {key}
                /\ Range(KeysOf(order)) = items

(* With capacity 2, after Put(t1); Put(t2); Get(t1): Put(t3) has evicted   *)
(* t2 and kept t1.                                                         *)
C17_Witness ==
    \E p \in Procs :
        /\ AfterBody(p, "Put")
        /\ capacity = 2
        /\ hits >= 1
        /\ frame[p].pre = <<hashContent("t1"), hashContent("t2")>>
        /\ frame[p].preUsed = <<hashContent("t1"), hashContent("t2")>>
        /\ frame[p].key = hashContent("t3")
        /\ KeysOf(order) = <<hashContent("t3"), hashContent("t1")>>

AllReturned == \A p \in Procs : cpc[p] = "idle"

(* C18: under any interleaving of concurrent calls on the cache, once all  *)
(* calls have returned hits is the number of Get calls that found their    *)
(* key and misses the number that did not, so hits + misses is the number  *)
(* of Gets; neither counter ever decreases, and only the body of a Get     *)
(* changes them (Put, Delete and Clear never do).                          *)
C18_CountersExact ==
    /\ [](AllReturned => /\ hits = chist.found
                         /\ misses = chist.notFound
                         /\ hits + misses = chist.gets)
    /\ [][/\ hits' >= hits
          /\ misses' >= misses
          /\ (hits' # hits \/ misses' # misses) =>
                \E p \in Procs : /\ cpc[p] = "cs"
                                 /\ frame[p].fn = "Get"
                                 /\ cpc'[p] = "unlock"]_vars

(* All the Gets have returned, some found their key and some did not. *)
C18_Witness ==
    /\ AllReturned
    /\ chist.gets = MaxGets
    /\ chist.found >= 1
    /\ chist.notFound >= 1
    /\ order # <<>>

(* C19: the vector the EmbeddingCache holds for a text changes only        *)
(* through Put: a Get that finds the text returns the elements of the last *)
(* Put for it, whatever callers wrote into the slice they passed to Put or *)
(* into a slice a Get returned.                                            *)
C19_GetReturnsLastPut ==
    \A p \in Procs :
        AfterBody(p, "Get") /\ frame[p].ok /\ ~frame[p].embed =>
            chist.lastPut[frame[p].key] = <<frame[p].value>>


(* C20: after Embed(t) has succeeded, a later Embed(t) issued while t is   *)
(* still in the cache sends no request to the remote service, succeeds and *)
(* returns a vector equal to the first result.                             *)
C20_SecondEmbedFromCache ==
    \A p \in Procs :
        cpc[p] = "ret" /\ frame[p].embed /\ frame[p].first # <<>> =>
            /\ ~frame[p].sent
            /\ frame[p].err = ""
            /\ <<frame[p].result>> = frame[p].first


(* C13: every memory persisted through the service, by Add or by Index,    *)
(* has non-empty content: no row of the table has the empty string as its  *)
(* content.                                                                *)
C13_PersistedContentNonEmpty ==
    \A i \in 1..Len(rows) : Len(rows[i].content) > 0


-----------------------------------------------------------------------------
(* Properties of the embedder, the chunkers and the service. *)

(* C21: EmbedBatch(texts) either returns exactly len(texts) vectors, with  *)
(* vectors[i] what Embed returned for texts[i], the embedding of texts[i], *)
(* for every i; or, when embedding an item fails, returns no vectors and   *)
(* an error naming the first failing index, having made no Embed call for  *)
(* any text after it.                                                      *)
C21_EmbedBatchAllOrError ==
    ebatch.pc = "ret" =>
        LET n == Len(ebatch.texts)
            got == ebatch.got
        IN  IF ebatch.errIndex = -1
            THEN /\ Len(ebatch.embeddings) = n
                 /\ Len(got) = n
                 /\ \A k \in 1..n :
                       /\ got[k].text = ebatch.texts[k]
                       /\ got[k].ok
                       /\ ebatch.embeddings[k] = got[k].value
                       /\ ebatch.embeddings[k] = RemoteEmbedding(ebatch.texts[k])
            ELSE /\ ebatch.embeddings = <<>>
                 /\ ebatch.errIndex \in 0..(n - 1)
                 /\ Len(got) = ebatch.errIndex + 1
                 /\ \A k \in 1..Len(got) :
                       /\ got[k].text = ebatch.texts[k]
                       /\ got[k].ok <=> k <= ebatch.errIndex

(* A batch of three texts whose second Embed failed: two Embed calls made. *)
C21_Witness ==
    /\ ebatch.pc = "ret"
    /\ Len(ebatch.texts) = 3
    /\ ebatch.errIndex = 1
    /\ Len(ebatch.got) = 2

(* The chunks a Chunk call returns, and the number of lines of its input:  *)
(* the lines "\n" terminates and the unterminated rest, if any.            *)
ChunksReturned == IF chk.pc = "ret" THEN chk.chunks ELSE <<>>

TotalLines == Len(LinesOf(chk.content))

WithinInput(c) == 1 <= c.StartLine /\ c.StartLine <= c.EndLine /\ c.EndLine <= TotalLines

(* C22: every chunk emitted by the line chunker, the Go-like splitter and  *)
(* the Python splitter has 1 <= start_line <= end_line <= number of lines  *)
(* of the input, for every input and every options value.                  *)
C22_LineRangeWithinInput ==
    \A k \in 1..Len(ChunksReturned) : WithinInput(ChunksReturned[k])

(* C23: no chunk emitted by the line chunker, the Go-like splitter or the  *)
(* Python splitter has empty content after trimming.                       *)
C23_NoEmptyChunk ==
    \A k \in 1..Len(ChunksReturned) : Len(TrimSpace(ChunksReturned[k].Content)) > 0

LinesCovered ==
    {n \in 1..TotalLines :
        \E k \in 1..Len(ChunksReturned) :
            ChunksReturned[k].StartLine <= n /\ n <= ChunksReturned[k].EndLine}

(* C24: for a non-empty input of N lines, the line ranges of the chunks a  *)
(* chunker emits cover every line 1..N (the buffer left at the end of the  *)
(* input is emitted as a last chunk).                                      *)
C24_ChunksCoverEveryLine ==
    chk.pc = "ret" /\ Len(chk.content) > 0 => LinesCovered = 1..TotalLines

(* Go source as the claim about functions takes it: a function starts on a *)
(* line beginning with "func " and ends on the first line where its braces *)
(* balance; the lines outside functions hold no brace.                     *)
BraceDepth(line) == CountOf(line, "{") - CountOf(line, "}")

RECURSIVE DepthOver(_, _, _)
DepthOver(lines, s, e) ==
    IF s > e THEN 0 ELSE BraceDepth(lines[s]) + DepthOver(lines, s + 1, e)

FuncLines(lines) == {s \in 1..Len(lines) : HasPrefix(lines[s], FuncKeyword)}

FuncEnds(lines, s) == {e \in s..Len(lines) : DepthOver(lines, s, e) = 0}

FuncEnd(lines, s) == CHOOSE e \in FuncEnds(lines, s) : \A x \in FuncEnds(lines, s) : e <= x

(* The identifier of the function declared on a func line: the word before *)
(* the parameter list, after the receiver if there is one.                 *)
FuncIdentifier(line) ==
    LET parts == Fields(line)
    IN  IF Head(parts[2]) = "(" THEN CutAt(parts[3], "(") ELSE CutAt(parts[2], "(")

TopLevelFuncs(lines) ==
    {s \in FuncLines(lines) :
        \A t \in FuncLines(lines) : t < s => FuncEnd(lines, t) < s}

GoFunctions(lines) ==
    {[Name |-> FuncIdentifier(lines[s]), StartLine |-> s,
      EndLine |-> FuncEnd(lines, s)] : s \in TopLevelFuncs(lines)}

WellFormedGo(lines) ==
    /\ \A s \in FuncLines(lines) : FuncEnds(lines, s) # {}
    /\ FuncLines(lines) = TopLevelFuncs(lines)
    /\ \A n \in 1..Len(lines) :
          \/ \E s \in FuncLines(lines) : s <= n /\ n <= FuncEnd(lines, s)
          \/ CountOf(lines[n], "{") + CountOf(lines[n], "}")
                + CountOf(lines[n], LongRun) = 0

ChunksFor(f) ==
    {k \in 1..Len(ChunksReturned) :
        /\ ChunksReturned[k].Type = "function"
        /\ ChunksReturned[k].Name = f.Name
        /\ ChunksReturned[k].StartLine = f.StartLine
        /\ ChunksReturned[k].EndLine = f.EndLine}

(* C25: for Go source whose top-level functions start on a line beginning  *)
(* with "func " and have balanced braces, the Go-like splitter emits for   *)
(* each function one chunk of type "function", named by the function's     *)
(* identifier, from the func line to the line where the brace depth is     *)
(* back to 0.                                                              *)
C25_GoFunctionChunks ==
    chk.pc = "ret" /\ chk.chunker = "go" /\ WellFormedGo(LinesOf(chk.content))
        => \A f \in GoFunctions(LinesOf(chk.content)) : Cardinality(ChunksFor(f)) = 1

(* What a def or class line declares. *)
PyKind(line) ==
    IF HasPrefix(TrimSpace(line), DefKeyword) THEN "function"
    ELSE IF HasPrefix(TrimSpace(line), ClassKeyword) THEN "class"
    ELSE "none"

PyIdentifier(line) == CutAt(CutAt(Fields(TrimSpace(line))[2], "("), ":")

(* C26: in the Python splitter a chunk that a def or class line started    *)
(* carries the type and the name of that line; a def or class line at      *)
(* deeper indentation inside it changes neither.                           *)
C26_PythonChunkTypeAndName ==
    chk.pc = "ret" /\ chk.chunker = "python" =>
        \A k \in 1..Len(chk.chunks) :
            LET c == chk.chunks[k]
                line == LinesOf(chk.content)[c.StartLine]
            IN  PyKind(line) # "none" =>
                    c.Type = PyKind(line) /\ c.Name = PyIdentifier(line)

(* C27: every chunk returned by Chunk (line chunker, Go-like splitter,     *)
(* Python splitter) has one of the types function, class, text.            *)
C27_ChunkTypeKnown ==
    \A k \in 1..Len(ChunksReturned) :
        ChunksReturned[k].Type \in {"function", "class", "text"}

(* A call of the service is about to return. *)
AddReturns == svc.pc = "ret" /\ svc.fn = "Add"

IndexReturns == svc.pc = "ret" /\ svc.fn = "Index"

(* The rows this call of the service has added to the table. *)
RowsAdded == SubSeq(rows, Len(svc.pre) + 1, Len(rows))

OnlyAdded == Len(rows) >= Len(svc.pre) /\ SubSeq(rows, 1, Len(svc.pre)) = svc.pre

(* C28: Add with empty content returns an error without calling the        *)
(* embedder or the store; when the embedder or the store fails, Add        *)
(* returns an error and persists nothing; on success exactly one new       *)
(* memory is persisted, with project "default" and type "context" when     *)
(* the request leaves them unset, and Add returns that memory.             *)
C28_ServiceAdd ==
    AddReturns =>
        /\ OnlyAdded
        /\ Len(svc.req.Content) = 0 =>
              svc.err # "" /\ svc.nEmbed = 0 /\ svc.nStore = 0
        /\ svc.failed => svc.err # ""
        /\ svc.err # "" => svc.result = <<>> /\ RowsAdded = <<>>
        /\ svc.err = "" =>
              /\ Len(RowsAdded) = 1
              /\ Len(svc.result) = 1
              /\ LET r == RowsAdded[1]
                     m == svc.result[1]
                 IN  /\ \A i \in 1..Len(svc.pre) : svc.pre[i].id # r.id
                     /\ r.content = svc.req.Content
                     /\ r.project = (IF svc.req.Project = "" THEN "default"
                                     ELSE svc.req.Project)
                     /\ r.type = (IF svc.req.Type = "" THEN "context"
                                  ELSE svc.req.Type)
                     /\ scanMemory(r).id = m.id
                     /\ scanMemory(r).content = m.content
                     /\ scanMemory(r).project = m.project
                     /\ scanMemory(r).type = m.type
                     /\ scanMemory(r).embedding = m.embedding
                     /\ scanMemory(r).metadata = m.metadata

C28_Witness ==
    /\ AddReturns
    /\ svc.err = ""
    /\ svc.req.Project = ""
    /\ svc.req.Type = ""
    /\ Len(svc.pre) = 1
    /\ Len(rows) = 2

(* The entries of a walk that are files to index: Walk could stat them,    *)
(* their extension is indexable, and neither their name nor the name of    *)
(* the directory they are in matches an ignore pattern.                    *)
InIgnoredDir(walk, k) ==
    \E j \in 1..(k - 1) :
        /\ walk[j].isDir
        /\ walk[j].depth < walk[k].depth
        /\ walk[j].name \in IndexIgnore
        /\ \A i \in (j + 1)..(k - 1) : walk[i].depth > walk[j].depth

ToIndex(walk) ==
    {k \in 1..Len(walk) :
        /\ ~walk[k].isDir
        /\ walk[k].stat
        /\ isIndexableFile(walk[k].ext)
        /\ walk[k].name \notin IndexIgnore
        /\ ~InIgnoredDir(walk, k)}

PathsToIndex(walk) == [i \in 1..Len(SeqFilter(walk, ToIndex(walk))) |->
                          SeqFilter(walk, ToIndex(walk))[i].path]

RowsOfFile(path) == {i \in 1..Len(RowsAdded) : RowsAdded[i].file_path = path}

RECURSIVE StoredFor(_)
(* The memories stored for the files whose indexFile succeeded. *)
StoredFor(seen) ==
    IF Len(seen) = 0 THEN 0
    ELSE (IF Head(seen).err = "" THEN Cardinality(RowsOfFile(Head(seen).path))
          ELSE 0) + StoredFor(Tail(seen))

(* C29: in a directory Index a file that fails to chunk, embed or store    *)
(* does not stop the walk: indexFile is called for every other indexable,  *)
(* non-ignored file, and Index returns no error and the number of memories *)
(* stored for the files that succeeded.                                    *)
C29_DirectoryIndexGoesOn ==
    IndexReturns /\ svc.dir =>
        /\ svc.err = ""
        /\ [i \in 1..Len(svc.seen) |-> svc.seen[i].path] = PathsToIndex(svc.req.Entries)
        /\ \A i \in 1..Len(svc.seen) :
              Cardinality(RowsOfFile(svc.seen[i].path)) =
                  IF svc.seen[i].err = "" THEN Len(ChunkFile(SeqFilter(svc.req.Entries, ToIndex(svc.req.Entries))[i]))
                  ELSE 0
        /\ svc.count = StoredFor(svc.seen)
        /\ OnlyAdded

C29_Witness ==
    /\ IndexReturns
    /\ svc.dir
    /\ Len(svc.seen) = 2
    /\ svc.seen[1].err = "failed to generate embeddings"
    /\ svc.seen[2].err = ""
    /\ svc.count = 3

(* C30: the count Index returns is the number of memories this call        *)
(* committed to the store, for a file and for a directory, with and        *)
(* without an error.                                                       *)
C30_CountIsCommitted ==
    IndexReturns => svc.count = Len(RowsAdded)

-----------------------------------------------------------------------------
(* Further properties of the cache, the embedder, the chunker, the store   *)
(* and the service.                                                        *)

(* C38: in every reachable state of the LRU the keys of the items map are  *)
(* the keys held in the recency list, each key occurs once in the list,    *)
(* Len() (the size of the map) is the length of the list, and Clear leaves *)
(* both empty.                                                             *)
C38_MapAndListAgree ==
    /\ items = Range(KeysOf(order))
    /\ \A i, j \in 1..Len(order) : order[i].key = order[j].key => i = j
    /\ Cardinality(items) = Len(order)
    /\ \A p \in CacheLoad.procs : AfterBody(p, "Clear") => items = {} /\ order = <<>>

C38_Witness ==
    /\ \E p \in CacheLoad.procs :
          /\ AfterBody(p, "Put")
          /\ Len(frame[p].pre) = 2
          /\ frame[p].key \notin Range(frame[p].pre)
    /\ capacity = 2
    /\ Len(order) = 2

(* C36: indexFile persists the memories of one file in a single AddBatch   *)
(* issued after every batch is embedded: nothing of the file is in the     *)
(* table while it is chunked and embedded; when the embedding of a batch   *)
(* or the insert fails none of the file's chunks is persisted, otherwise   *)
(* all of them are.                                                        *)
C36_FileAllOrNothing ==
    svc.fn = "Index" /\ svc.req.Path = "file" =>
        LET e == svc.req.Entries[1]
            chunks == ChunkFile(e)
        IN  /\ OnlyAdded
            /\ svc.nStore <= 1
            /\ svc.pc \in {"file", "embed"} => RowsAdded = <<>>
            /\ svc.pc = "ret" =>
                  IF svc.failed \/ ~e.readable
                  THEN RowsAdded = <<>>
                  ELSE /\ Len(RowsAdded) = Len(chunks)
                       /\ \A k \in 1..Len(chunks) :
                             /\ RowsAdded[k].content = chunks[k].Content
                             /\ RowsAdded[k].file_path = e.path

C36_Witness ==
    /\ IndexReturns
    /\ svc.req.Path = "file"
    /\ svc.failed
    /\ svc.nStore = 1
    /\ svc.nEmbed = 3
    /\ svc.config.EmbedBatchSize = 2

(* C35: an Embed that fails (the transport fails, the status is not 200,   *)
(* or the answer has no "embeddings" key) leaves the cache as it was when  *)
(* Embed was called and does not count a request; and an Embed of a text   *)
(* whose last request failed sends a request to the remote service again.  *)
C35_FailedEmbedLeavesNoTrace ==
    \A p \in EmbedLoad.procs :
        cpc[p] = "ret" /\ frame[p].embed =>
            /\ frame[p].err # "" =>
                  /\ frame[p].sent
                  /\ frame[p].result = <<>>
                  /\ requests = chist.before.requests
                  /\ KeysOf(order) = chist.before.keys
                  /\ frame[p].key \notin items
                  /\ frame[p].text \in chist.failed
            /\ chist.before.failed => frame[p].sent
            /\ frame[p].err \in {EmbedError(a) : a \in Answers}

(* An Embed that fails for the missing key, of a text whose request before *)
(* had failed too, with another text in the cache.                         *)
C35_Witness ==
    \E p \in EmbedLoad.procs :
        /\ cpc[p] = "ret" /\ frame[p].embed
        /\ frame[p].err = EmbedError("nokey")
        /\ chist.before.failed
        /\ requests = 1
        /\ items # {}

(* The MaxSize a call of LineChunker.Chunk works with. *)
EffectiveMaxSize == IF chk.maxSize <= 0 THEN ChunkMaxSize ELSE chk.maxSize

(* C37: when every line of the input has at most MaxSize characters, every *)
(* chunk LineChunker.Chunk emits has content of at most MaxSize            *)
(* characters, for every overlap value.                                    *)
C37_LineChunkWithinMaxSize ==
    chk.pc = "ret" /\ chk.chunker = "line"
        /\ (\A n \in 1..Len(SplitLF(chk.content)) :
                ByteLen(SplitLF(chk.content)[n]) <= EffectiveMaxSize) =>
        \A k \in 1..Len(chk.chunks) :
            ByteLen(chk.chunks[k].Content) <= EffectiveMaxSize

(* C39: every store operation releases s.mu on every return path, error   *)
(* returns and a failed or rolled-back AddBatch included: a process that   *)
(* is not inside an operation holds neither side of the lock, and under    *)
(* fair scheduling every invoked operation returns, whatever the           *)
(* interleaving of readers and writers.                                    *)
C39_LockReleasedAndProgress ==
    /\ [](\A p \in LiveLoad.procs :
              pc[p] \in {"idle", "lock", "pending", "blocked"} =>
                  writer # p /\ p \notin readers)
    /\ \A p \in LiveLoad.procs : (pc[p] # "idle") ~> (pc[p] = "idle")

(* A failed AddBatch is about to return while a reader is blocked behind   *)
(* it.                                                                     *)
C39_Witness ==
    \E p, q \in LiveLoad.procs :
        /\ pc[p] = "ret" /\ op[p] = "AddBatch" /\ ret[p].err /\ writer = p
        /\ pc[q] = "blocked"

(* The file indexFile has in hand was taken up after the cancellation. *)
FurtherFile ==
    /\ svc.cancelled
    /\ svc.pc \in {"file", "embed", "store"}
    /\ svc.at > svc.cancelAt \/ svc.cancelPc = "walk"

(* C31: once the context of a directory Index is cancelled, no further     *)
(* file is chunked and embedded, no further memory is committed, and Index *)
(* returns the count committed before the cancellation.                    *)
C31_CancelStopsIndex ==
    svc.fn = "Index" /\ svc.dir /\ svc.cancelled =>
        /\ FurtherFile => svc.pc = "file"
        /\ Len(rows) = svc.committedAt
        /\ svc.pc = "ret" => svc.count = svc.committedAt - Len(svc.pre)

(* The number of items of r with similarity s, and with a greater one. *)
CountSim(r, s) == Cardinality({i \in 1..Len(r) : r[i].Similarity = s})

CountAbove(r, s) == Cardinality({i \in 1..Len(r) : r[i].Similarity > s})

SimsOf(r) == [i \in 1..Len(r) |-> r[i].Similarity]

(* C33: for every result list r and every k >= 0, topKResults(r, k)        *)
(* returns exactly min(k, len(r)) items in non-increasing similarity, and  *)
(* for every similarity it holds as many of them as the min(k, len(r))     *)
(* most similar items of r do; on every k up to len(r) the selection, the  *)
(* heap and the prefix of the full sort give the same similarities.        *)
C33_TopKReturnsTheMostSimilar ==
    topk.pc = "ret" =>
        LET r == topk.results
            m == Min(topk.k, Len(r))
        IN  /\ Len(topk.out) = m
            /\ \A i \in 1..(m - 1) :
                  topk.out[i].Similarity >= topk.out[i + 1].Similarity
            /\ \A s \in Similarities :
                  CountSim(topk.out, s) =
                      Min(CountSim(r, s), Max(0, m - CountAbove(r, s)))
            /\ topk.k <= Len(r) =>
                  /\ SimsOf(selectTopK(r, topk.k)) = SimsOf(heapTopK(r, topk.k))
                  /\ SimsOf(heapTopK(r, topk.k)) =
                         SimsOf(SubSeq(sortBySimilarity(r), 1, topk.k))

C33_Witness ==
    /\ topk.pc = "ret"
    /\ topk.strategy = "heap"
    /\ Len(topk.out) = SelectMax + 1
    /\ SimsOf(topk.results) = <<1, 3, 2, 3, 1, 2, 3>>
    /\ SimsOf(topk.out) = <<3, 3, 3, 2, 2, 1>>

(* C34: BatchCosineSimilarity with len(out) = len(targets) never fails     *)
(* (no panic), and when it has returned, the slot of every target whose    *)
(* length differs from the query's is 0, and every slot is 0 when the      *)
(* query has zero norm.                                                    *)
C34_BatchKernelNeverFails ==
    kern.pc = "ret" =>
        /\ ~kern.panic
        /\ \A i \in 1..Len(kern.targets) :
              Len(kern.targets[i]) # Len(kern.query) => kern.similarities[i] = 0
        /\ QueryNorm(kern.query) = 0 =>
              \A i \in 1..Len(kern.targets) : kern.similarities[i] = 0

(* The failure of the service call behind the response: an invalid         *)
(* argument (empty content, query or path), an unknown id, or another one. *)
InvalidArgument ==
    web.err \in {"content is required", "query is required", "path is required"}

UnknownId == web.route = "/memory/" /\ web.id = "unknown" /\ web.fails # "store"

ExpectedStatus ==
    IF InvalidArgument THEN 400 ELSE IF UnknownId THEN 404 ELSE 500

(* C32: when the service call behind a request has failed, the response    *)
(* has status 400 for an invalid argument (empty content, empty query,     *)
(* empty path), 404 for an unknown id and 500 for every other failure,     *)
(* and its body is the JSON object whose error field is the failure's      *)
(* message.                                                                *)
C32_FailureStatus ==
    web.pc = "ret" /\ web.err # "" =>
        /\ web.status = ExpectedStatus
        /\ web.json
        /\ web.error = web.err

(* C40: in serve mode, once the service and with it the store is closed    *)
(* after SIGINT or SIGTERM, the HTTP server is not serving (it neither     *)
(* listens nor has handlers it still waits for) and no request handler is  *)
(* executing a store operation.                                            *)
C40_CloseAfterServerStopped ==
    srv.closed =>
        /\ srv.server \notin {"listening", "closing"}
        /\ \A h \in Handlers : srv.handlers[h] # "store"

=============================================================================
